---------------------------- MODULE Spec2Model ----------------------------
(***************************************************************************)
(* Model of the Peak -> Apex transpiler (ipavlic/peak).                    *)
(*                                                                         *)
(* Source text is modelled byte by byte: a Go string is a sequence of      *)
(* one-character strings, Go positions are 0-based offsets into it, and a  *)
(* Go map is a function whose DOMAIN is the set of its keys.               *)
(***************************************************************************)
EXTENDS Integers, Sequences, FiniteSets, Bags, TLC

(***************************************************************************)
(* Bytes and strings                                                       *)
(***************************************************************************)

\* the value current()/peek() return past the end of the input
NUL == "NUL"

LowerLetters == {"a","b","c","d","e","f","g","h","i","j","k","l","m",
                 "n","o","p","q","r","s","t","u","v","w","x","y","z"}

UpperLetters == {"A","B","C","D","E","F","G","H","I","J","K","L","M",
                 "N","O","P","Q","R","S","T","U","V","W","X","Y","Z"}

Digits == {"0","1","2","3","4","5","6","7","8","9"}

\* unicode.IsSpace restricted to the ASCII bytes
SpaceChars == {" ", "\t", "\n", "\r", "\f"}

IsLetter(c) == c \in LowerLetters \cup UpperLetters

IsDigit(c) == c \in Digits

IsSpace(c) == c \in SpaceChars

\* s[a:b] of Go, a and b 0-based
Slice(s, a, b) == SubSeq(s, a + 1, b)

\* s[p] of Go guarded by the length test of current()/peek()
At(s, p) == IF p >= Len(s) THEN NUL ELSE s[p + 1]

\* strings.HasPrefix(s[p:], w)
MatchAt(s, p, w) == p + Len(w) <= Len(s) /\ Slice(s, p, p + Len(w)) = w

\* The position a loop "for pos < hi && !P(pos) { pos++ }" started at p stops
\* at: the first position from p on that satisfies P, or hi when there is none
FirstPos(p, hi, P(_)) ==
    IF p >= hi THEN p
    ELSE CHOOSE q \in p..hi : (q = hi \/ P(q)) /\ \A r \in p..(q - 1) : ~P(r)

\* strings.Contains(s, w)
\* F applied to the value of e, which is computed once
Let(e, F(_)) == CHOOSE r \in {F(x) : x \in {e}} : TRUE

Contains(s, w) == \E p \in 0..Len(s) : MatchAt(s, p, w)

\* strings.Index(s, w); -1 when absent
Index(s, w) ==
    IF Contains(s, w) THEN FirstPos(0, Len(s), LAMBDA q : MatchAt(s, q, w)) ELSE -1

\* strings.TrimSpace
TrimSpace(s) ==
    IF \A i \in 1..Len(s) : IsSpace(s[i]) THEN <<>>
    ELSE SubSeq(s, CHOOSE i \in 1..Len(s) : ~IsSpace(s[i]) /\ \A j \in 1..(i - 1) : IsSpace(s[j]),
                   CHOOSE i \in 1..Len(s) : ~IsSpace(s[i]) /\ \A j \in (i + 1)..Len(s) : IsSpace(s[j]))

RECURSIVE Join(_, _)
\* strings.Join(parts, sep)
Join(parts, sep) ==
    IF parts = <<>> THEN <<>>
    ELSE IF Len(parts) = 1 THEN parts[1]
    ELSE parts[1] \o sep \o Join(Tail(parts), sep)

\* the sequences that list every element of the set S once: the orders in
\* which Go may visit the keys of a map
Perms(S) ==
    {f \in [1..Cardinality(S) -> S] : \A i, j \in 1..Cardinality(S) : f[i] = f[j] => i = j}

\* Go map operations
EmptyMap == [k \in {} |-> {}]

Put(m, k, v) == [x \in (DOMAIN m) \cup {k} |-> IF x = k THEN v ELSE m[x]]

(***************************************************************************)
(* Scanner primitives (pkg/parser)                                         *)
(***************************************************************************)

skipWhitespace(s, p) == FirstPos(p, Len(s), LAMBDA q : ~IsSpace(At(s, q)))

\* the inner loop of a // comment: advance to the newline or the end
LineEnd(s, p) == FirstPos(p, Len(s), LAMBDA q : At(s, q) = "\n")

\* the inner loop of a /* comment: it runs while pos < len-1 and steps over
\* the closing */ when it finds one
BlockEnd(s, p) ==
    Let(FirstPos(p, Len(s) - 1, LAMBDA r : At(s, r) = "*" /\ At(s, r + 1) = "/"),
        LAMBDA q : IF q < Len(s) - 1 THEN q + 2 ELSE q)

RECURSIVE skipComments(_, _)
skipComments(s, p) ==
    IF p >= Len(s) THEN p
    ELSE IF At(s, p) = "/" /\ At(s, p + 1) = "/"
    THEN Let(LineEnd(s, p + 2), LAMBDA q :
           skipComments(s, IF q < Len(s) /\ At(s, q) = "\n" THEN q + 1 ELSE q))
    ELSE IF At(s, p) = "/" /\ At(s, p + 1) = "*"
    THEN Let(BlockEnd(s, p + 2), LAMBDA q : skipComments(s, q))
    ELSE p

RECURSIVE skipWhitespaceAndComments(_, _)
skipWhitespaceAndComments(s, p) ==
    Let(skipComments(s, skipWhitespace(s, p)), LAMBDA q :
      IF q = p THEN p ELSE skipWhitespaceAndComments(s, q))

\* the position after the maximal run of letters, digits and underscores
parseIdentifier(s, p) ==
    FirstPos(p, Len(s),
             LAMBDA q : ~(IsLetter(At(s, q)) \/ IsDigit(At(s, q)) \/ At(s, q) = "_"))

(***************************************************************************)
(* Generic expressions                                                     *)
(***************************************************************************)

S_List == <<"L","i","s","t">>

S_Set == <<"S","e","t">>

S_Map == <<"M","a","p">>

\* isBuiltInGeneric with Set and Map forgotten
isBuiltInGeneric_ListOnly(typeName) == typeName = S_List

isBuiltInGeneric(typeName) == typeName \in {S_List, S_Set, S_Map}

SimpleExpr(name) == [BaseType |-> name, TypeArgs |-> <<>>, IsSimple |-> TRUE]

GenericExprOf(name, args) == [BaseType |-> name, TypeArgs |-> args, IsSimple |-> FALSE]

ParseFail(p, msg) == [ok |-> FALSE, pos |-> p, msg |-> msg]

RECURSIVE ParseGeneric(_, _, _)
RECURSIVE ParseGenericLoop(_, _, _, _)
RECURSIVE parseTypeArgument(_, _)

ParseGeneric(s, p, baseType) ==
    IF At(s, p) # "<" THEN ParseFail(p, "expected '<'")
    ELSE ParseGenericLoop(s, p + 1, baseType, <<>>)

ParseGenericLoop(s, p, baseType, args) ==
    Let(parseTypeArgument(s, skipWhitespace(s, p)), LAMBDA ta :
      IF ~ta.ok THEN ta
      ELSE Let(skipWhitespace(s, ta.pos), LAMBDA q :
           Let(Append(args, ta.expr), LAMBDA args2 :
             IF At(s, q) = ">"
             THEN [ok |-> TRUE, pos |-> q + 1, expr |-> GenericExprOf(baseType, args2)]
             ELSE IF At(s, q) = ","
             THEN ParseGenericLoop(s, q + 1, baseType, args2)
             ELSE ParseFail(q, "expected '>' or ','"))))

parseTypeArgument(s, p) ==
    Let(skipWhitespace(s, p), LAMBDA p1 :
    Let(parseIdentifier(s, p1), LAMBDA e :
    Let(skipWhitespace(s, e), LAMBDA p2 :
      IF Slice(s, p1, e) = <<>> THEN ParseFail(e, "expected type name")
      ELSE IF At(s, p2) = "<" THEN ParseGeneric(s, p2, Slice(s, p1, e))
      ELSE [ok |-> TRUE, pos |-> p2, expr |-> SimpleExpr(Slice(s, p1, e))])))

RECURSIVE String(_)
RECURSIVE StringArgs(_)
\* GenericExpr.String: the canonical rendering
String(g) ==
    IF g.IsSimple THEN g.BaseType
    ELSE g.BaseType \o <<"<">> \o Join(StringArgs(g.TypeArgs), <<",", " ">>) \o <<">">>

StringArgs(args) ==
    IF args = <<>> THEN <<>> ELSE <<String(Head(args))>> \o StringArgs(Tail(args))

RECURSIVE GenerateConcreteClassName(_)
RECURSIVE ConcreteNameParts(_)
GenerateConcreteClassName(g) == g.BaseType \o ConcreteNameParts(g.TypeArgs)

ConcreteNameParts(args) ==
    IF args = <<>> THEN <<>>
    ELSE (IF Head(args).IsSimple THEN Head(args).BaseType
          ELSE GenerateConcreteClassName(Head(args)))
         \o ConcreteNameParts(Tail(args))

(***************************************************************************)
(* Usage scanner (Parser.FindGenerics)                                     *)
(***************************************************************************)

RECURSIVE collectNestedGenericsFrom(_, _, _, _)
\* The loop of collectNestedGenerics from argument i on.  The map stores
\* &typeArg, the address of the loop variable.  When the build gives every
\* iteration its own variable (Go >= 1.22 language version) the entry keeps
\* the argument itself; when the loop shares one variable (older language
\* versions) every entry stored by this loop ends up pointing at the last
\* value assigned to it, the last type argument of expr.
collectNestedGenericsFrom(expr, generics, i, sharedLoopVar) ==
    IF i > Len(expr.TypeArgs) THEN generics
    ELSE LET typeArg == expr.TypeArgs[i]
             stored == IF sharedLoopVar THEN expr.TypeArgs[Len(expr.TypeArgs)] ELSE typeArg
         IN IF ~typeArg.IsSimple /\ ~isBuiltInGeneric(typeArg.BaseType)
            THEN Let(collectNestedGenericsFrom(typeArg,
                         Put(generics, String(typeArg), stored), 1, sharedLoopVar),
                     LAMBDA collected :
                       collectNestedGenericsFrom(expr, collected, i + 1, sharedLoopVar))
            ELSE collectNestedGenericsFrom(expr, generics, i + 1, sharedLoopVar)

collectNestedGenerics(expr, generics, sharedLoopVar) ==
    collectNestedGenericsFrom(expr, generics, 1, sharedLoopVar)

\* the test with whitespace let through
IsGenericStart_NoSpace(s, p) == At(s, p + 1) # "="

\* The test that tells a generic from a comparison: the byte after '<'
IsGenericStart(s, p) == At(s, p + 1) # "=" /\ ~IsSpace(At(s, p + 1))

\* the iteration without the rollback: after a failed parse the scan goes on
\* where the parse stopped
FindGenericsStep_NoRollback(s, st, sharedLoopVar) ==
    Let(skipWhitespaceAndComments(s, st.pos), LAMBDA p0 :
      IF p0 >= Len(s) THEN [st EXCEPT !.pos = p0]
      ELSE IF ~IsLetter(At(s, p0)) /\ At(s, p0) # "_" THEN [st EXCEPT !.pos = p0 + 1]
      ELSE Let(parseIdentifier(s, p0), LAMBDA e :
           Let(skipWhitespace(s, e), LAMBDA p1 :
             IF At(s, p1) = "<" /\ IsGenericStart(s, p1)
             THEN Let(ParseGeneric(s, p1, Slice(s, p0, e)), LAMBDA r :
                    IF ~r.ok THEN [st EXCEPT !.pos = IF r.pos > p1 THEN r.pos ELSE p1 + 1]
                    ELSE IF ~isBuiltInGeneric(r.expr.BaseType)
                    THEN [pos |-> r.pos,
                          generics |->
                              collectNestedGenerics(r.expr,
                                  Put(st.generics, Slice(s, p0, r.pos), r.expr),
                                  sharedLoopVar)]
                    ELSE [st EXCEPT !.pos = r.pos])
             ELSE [st EXCEPT !.pos = p1])))

\* One iteration of the scanning loop of FindGenerics, entered with
\* st.pos < Len(s).  st = [pos, generics]
FindGenericsStep(s, st, sharedLoopVar) ==
    Let(skipWhitespaceAndComments(s, st.pos), LAMBDA p0 :
      IF p0 >= Len(s) THEN [st EXCEPT !.pos = p0]
      ELSE IF ~IsLetter(At(s, p0)) /\ At(s, p0) # "_" THEN [st EXCEPT !.pos = p0 + 1]
      ELSE Let(parseIdentifier(s, p0), LAMBDA e :
           Let(skipWhitespace(s, e), LAMBDA p1 :
             IF At(s, p1) = "<" /\ IsGenericStart(s, p1)
             THEN Let(ParseGeneric(s, p1, Slice(s, p0, e)), LAMBDA r :
                    IF ~r.ok THEN [st EXCEPT !.pos = p1 + 1]
                    ELSE IF ~isBuiltInGeneric(r.expr.BaseType)
                    THEN [pos |-> r.pos,
                          generics |->
                              collectNestedGenerics(r.expr,
                                  Put(st.generics, Slice(s, p0, r.pos), r.expr),
                                  sharedLoopVar)]
                    ELSE [st EXCEPT !.pos = r.pos])
             ELSE [st EXCEPT !.pos = p1])))

RECURSIVE FindGenericsLoop(_, _, _)
FindGenericsLoop(s, st, sharedLoopVar) ==
    IF st.pos < Len(s)
    THEN Let(FindGenericsStep(s, st, sharedLoopVar),
             LAMBDA next : FindGenericsLoop(s, next, sharedLoopVar))
    ELSE st.generics

\* map from the text of a usage to its parsed expression; never an error
FindGenerics(s, sharedLoopVar) ==
    FindGenericsLoop(s, [pos |-> 0, generics |-> EmptyMap], sharedLoopVar)

(***************************************************************************)
(* Template-definition scanner (Parser.FindGenericClassDefinitions)         *)
(***************************************************************************)

S_class == <<"c","l","a","s","s">>

S_sharing == <<"s","h","a","r","i","n","g">>

S_with == <<"w","i","t","h">>

S_without == <<"w","i","t","h","o","u","t">>

S_inherited == <<"i","n","h","e","r","i","t","e","d">>

\* The loop of getLineAndColumn over the first min(pos, len) bytes: line
\* counts the newlines among them, column the bytes after the last of them
getLineAndColumn(s, pos) ==
    Let(IF pos < Len(s) THEN pos ELSE Len(s), LAMBDA n :
    Let({i \in 0..(n - 1) : At(s, i) = "\n"}, LAMBDA newlines :
      [Line |-> 1 + Cardinality(newlines),
       Column |-> IF newlines = {} THEN n + 1
                  ELSE n - (CHOOSE i \in newlines : \A j \in newlines : j <= i)]))

NoError == [Message |-> "", Line |-> 0, Column |-> 0]

\* a ParseError; Message is the fixed part of the formatted message
createError(s, pos, message) ==
    Let(getLineAndColumn(s, pos), LAMBDA lc :
      [Message |-> message, Line |-> lc.Line, Column |-> lc.Column])

matchKeyword(s, p, keyword) ==
    /\ p + Len(keyword) <= Len(s)
    /\ (p > 0 => ~(IsLetter(At(s, p - 1)) \/ IsDigit(At(s, p - 1))))
    /\ Slice(s, p, p + Len(keyword)) = keyword
    /\ (p + Len(keyword) < Len(s) =>
            ~(IsLetter(At(s, p + Len(keyword))) \/ IsDigit(At(s, p + Len(keyword)))))

TypeParamsFail(s, p, message) ==
    [ok |-> FALSE, pos |-> p, params |-> <<>>, err |-> createError(s, p, message)]

RECURSIVE parseTypeParametersLoop(_, _, _)
\* the loop of parseTypeParameters, entered after the opening '<'
parseTypeParametersLoop(s, p, params) ==
    Let(skipWhitespace(s, p), LAMBDA q :
    Let(parseIdentifier(s, q), LAMBDA e :
    Let(skipWhitespace(s, e), LAMBDA q2 :
    Let(Slice(s, q, e), LAMBDA param :
      IF At(s, q) = ">" /\ At(s, q + 1) = ">"
      THEN TypeParamsFail(s, q, "'>>' is not allowed in type parameters")
      ELSE IF param = <<>>
      THEN TypeParamsFail(s, e, "expected type parameter")
      ELSE IF Len(param) # 1
      THEN TypeParamsFail(s, q, "type parameter must be a single letter")
      ELSE IF ~IsLetter(param[1])
      THEN TypeParamsFail(s, q, "type parameter must be a letter")
      ELSE IF \E i \in 1..Len(params) : params[i] = param
      THEN TypeParamsFail(s, q, "duplicate type parameter")
      ELSE IF At(s, q2) = ">"
      THEN IF At(s, q2 + 1) = ">"
           THEN TypeParamsFail(s, q2, "'>>' is not allowed in type parameters")
           ELSE [ok |-> TRUE, pos |-> q2 + 1, params |-> Append(params, param),
                 err |-> NoError]
      ELSE IF At(s, q2) = ","
      THEN Let(Append(params, param),
               LAMBDA params2 : parseTypeParametersLoop(s, q2 + 1, params2))
      ELSE TypeParamsFail(s, q2, "expected '>' or ','")))))

parseTypeParameters(s, p) ==
    IF At(s, p) # "<" THEN TypeParamsFail(s, p, "expected '<'")
    ELSE IF At(s, p + 1) = "<"
    THEN TypeParamsFail(s, p, "'<<' is not allowed in type parameters")
    ELSE parseTypeParametersLoop(s, p + 1, <<>>)

\* advance until the byte c or the end of the input
FindByte(s, p, c) == FirstPos(p, Len(s), LAMBDA q : At(s, q) = c)

\* the value of braceCount after the bytes p..q have been visited
BraceCountAfter(s, p, q, braceCount) ==
    braceCount + Cardinality({i \in p..q : At(s, i) = "{"})
               - Cardinality({i \in p..q : At(s, i) = "}"})

\* the brace-counting loop shared by extractClassBody and extractMethodBody,
\* entered at p with braceCount > 0: it stops after the byte that brings
\* the count to 0, or at the end of the input
MatchBrace(s, p, braceCount) ==
    Let(FirstPos(p, Len(s), LAMBDA q : BraceCountAfter(s, p, q, braceCount) = 0),
        LAMBDA m : IF m < Len(s) THEN m + 1 ELSE m)

\* [body, endPos]
extractClassBody(s, p) ==
    Let(FindByte(s, skipWhitespace(s, p), "{"), LAMBDA startBody :
      IF startBody >= Len(s) THEN [body |-> <<>>, endPos |-> startBody]
      ELSE Let(MatchBrace(s, startBody + 1, 1), LAMBDA endBody :
             [body |-> Slice(s, startBody, endBody), endPos |-> endBody]))

\* prevIdentifier = ""; modifierStart = -1; continue
ResetAt(st, p) == [st EXCEPT !.pos = p, !.prevIdentifier = <<>>, !.modifierStart = -1]

\* FindGenericClassDefinitions once identifier has been read up to pos: the
\* test for the class keyword and what follows it
FindGenericClassDefinitionsWord(s, st, identifier, prevIdentifier, pos, modifierStart) ==
    IF identifier # S_class
    THEN [st EXCEPT !.pos = pos, !.prevIdentifier = identifier,
                    !.modifierStart = modifierStart]
    ELSE
    Let(skipWhitespace(s, pos), LAMBDA c1 :
    Let(parseIdentifier(s, c1), LAMBDA c2 :
    Let(skipWhitespace(s, c2), LAMBDA c3 :
      IF Slice(s, c1, c2) = <<>>
      THEN [st EXCEPT !.pos = c2, !.prevIdentifier = prevIdentifier, !.modifierStart = -1]
      ELSE IF At(s, c3) # "<"
      THEN [st EXCEPT !.pos = c3, !.prevIdentifier = prevIdentifier, !.modifierStart = -1]
      ELSE
      Let(parseTypeParameters(s, c3), LAMBDA tp :
        IF ~tp.ok
        THEN [st EXCEPT !.pos = tp.pos, !.err = tp.err, !.definitions = EmptyMap]
        ELSE
        Let(extractClassBody(s, tp.pos), LAMBDA cb :
          [pos |-> cb.endPos,
           prevIdentifier |-> prevIdentifier,
           modifierStart |-> -1,
           definitions |->
               Put(st.definitions, Slice(s, c1, c2),
                   [ClassName |-> Slice(s, c1, c2), TypeParams |-> tp.params,
                    Modifiers |->
                        IF modifierStart >= 0 /\ modifierStart < pos - Len(S_class)
                        THEN TrimSpace(Slice(s, modifierStart, pos - Len(S_class)))
                        ELSE <<>>,
                    Body |-> cb.body,
                    StartPos |-> modifierStart, EndPos |-> cb.endPos]),
           err |-> NoError])))))

\* One iteration of the scanning loop of FindGenericClassDefinitions, entered
\* with st.pos < Len(s) and no error.
\* st = [pos, prevIdentifier, modifierStart, definitions, err]
FindGenericClassDefinitionsStep(s, st) ==
    Let(skipWhitespaceAndComments(s, st.pos), LAMBDA p0 :
    Let(parseIdentifier(s, p0), LAMBDA e :
    Let(Slice(s, p0, e), LAMBDA first :
    Let(IF st.modifierStart = -1 THEN p0 ELSE st.modifierStart, LAMBDA modifierStart :
      IF p0 >= Len(s) THEN [st EXCEPT !.pos = p0]
      ELSE IF ~IsLetter(At(s, p0)) /\ At(s, p0) # "_" THEN ResetAt(st, p0 + 1)
      ELSE IF first = S_sharing
              /\ st.prevIdentifier \notin {S_with, S_without, S_inherited}
      THEN Let(skipWhitespace(s, e), LAMBDA n1 :
             ResetAt(st, IF matchKeyword(s, n1, S_class) THEN n1 + 5 ELSE n1))
      ELSE IF first \in {S_with, S_without, S_inherited}
      THEN \* the sharing prefix and the words after it
           Let(skipWhitespace(s, e), LAMBDA n1 :
           Let(parseIdentifier(s, n1), LAMBDA n2 :
           Let(skipWhitespace(s, n2), LAMBDA n3 :
           Let(parseIdentifier(s, n3), LAMBDA n4 :
             IF Slice(s, n1, n2) # S_sharing
             THEN ResetAt(st, IF Slice(s, n1, n2) = S_class THEN n4 ELSE n2)
             ELSE FindGenericClassDefinitionsWord(s, st, Slice(s, n3, n4), <<>>, n4,
                                                  modifierStart)))))
      ELSE FindGenericClassDefinitionsWord(s, st, first, st.prevIdentifier, e,
                                           modifierStart)))))

RECURSIVE FindGenericClassDefinitionsLoop(_, _)
FindGenericClassDefinitionsLoop(s, st) ==
    IF st.pos < Len(s) /\ st.err = NoError
    THEN Let(FindGenericClassDefinitionsStep(s, st),
             LAMBDA next : FindGenericClassDefinitionsLoop(s, next))
    ELSE [defs |-> st.definitions, err |-> st.err]

\* [defs, err]: on an error the definitions are nil (the empty map)
FindGenericClassDefinitions(s) ==
    FindGenericClassDefinitionsLoop(s,
        [pos |-> 0, prevIdentifier |-> <<>>, modifierStart |-> -1,
         definitions |-> EmptyMap, err |-> NoError])

(***************************************************************************)
(* Generic-method scanner (Parser.FindGenericMethodDefinitions)            *)
(***************************************************************************)

S_public == <<"p","u","b","l","i","c">>

\* the modifiers that can stand before a generic method, in the order tried
MethodModifiers ==
    <<S_public,
      <<"p","r","i","v","a","t","e">>,
      <<"p","r","o","t","e","c","t","e","d">>,
      <<"s","t","a","t","i","c">>,
      <<"f","i","n","a","l">>,
      <<"o","v","e","r","r","i","d","e">>,
      <<"v","i","r","t","u","a","l">>,
      <<"a","b","s","t","r","a","c","t">>>>

\* p.advance(n)
advance(s, p, n) == IF p + n > Len(s) THEN Len(s) ELSE p + n

RECURSIVE parseTypeParameterListLoop(_, _, _)
\* the loop of parseTypeParameterList, entered after the opening '<';
\* [ok, pos, params]: the error itself is dropped by the only caller
parseTypeParameterListLoop(s, p, params) ==
    Let(skipWhitespace(s, p), LAMBDA q :
    Let(parseIdentifier(s, q), LAMBDA e :
    Let(skipWhitespace(s, e), LAMBDA q2 :
      IF e = q THEN [ok |-> FALSE, pos |-> e, params |-> <<>>]
      ELSE IF e - q # 1 THEN [ok |-> FALSE, pos |-> e, params |-> <<>>]
      ELSE IF At(s, q2) = ">"
      THEN [ok |-> TRUE, pos |-> advance(s, q2, 1),
            params |-> Append(params, Slice(s, q, e))]
      ELSE IF At(s, q2) = ","
      THEN Let(Append(params, Slice(s, q, e)), LAMBDA params2 :
             parseTypeParameterListLoop(s, advance(s, q2, 1), params2))
      ELSE [ok |-> FALSE, pos |-> q2, params |-> <<>>])))

parseTypeParameterList(s, p) == parseTypeParameterListLoop(s, p, <<>>)

RECURSIVE skipToMethodNameLoop(_, _, _)
\* the loop of skipToMethodName; [ok, pos]
skipToMethodNameLoop(s, p, depth) ==
    IF p >= Len(s) THEN [ok |-> FALSE, pos |-> p]
    ELSE Let(skipWhitespace(s, p), LAMBDA q :
      IF At(s, q) = "<" THEN skipToMethodNameLoop(s, advance(s, q, 1), depth + 1)
      ELSE IF At(s, q) = ">" THEN skipToMethodNameLoop(s, advance(s, q, 1), depth - 1)
      ELSE IF depth = 0 /\ (IsLetter(At(s, q)) \/ At(s, q) = "_")
      THEN Let(skipWhitespace(s, parseIdentifier(s, q)), LAMBDA q2 :
             IF At(s, q2) = "(" THEN [ok |-> TRUE, pos |-> q]
             ELSE skipToMethodNameLoop(s, q2, depth))
      ELSE IF At(s, q) = "(" THEN [ok |-> FALSE, pos |-> q]
      ELSE skipToMethodNameLoop(s, advance(s, q, 1), depth))

skipToMethodName(s, p) == skipToMethodNameLoop(s, p, 0)

\* the value of depth after the bytes p..q have been visited, from depth 1
ParenDepthAfter(s, p, q) ==
    1 + Cardinality({i \in p..q : At(s, i) = "("})
      - Cardinality({i \in p..q : At(s, i) = ")"})

\* skipToClosingParen: [ok, pos]
skipToClosingParen(s, p) ==
    Let(FirstPos(p, Len(s), LAMBDA q : At(s, q) = ")" /\ ParenDepthAfter(s, p, q) = 0),
        LAMBDA q : [ok |-> q < Len(s), pos |-> q])

\* [body, endPos]
extractMethodBody(s, p) ==
    IF At(s, p) # "{" THEN [body |-> <<>>, endPos |-> p]
    ELSE Let(MatchBrace(s, advance(s, p, 1), 1), LAMBDA endBody :
           [body |-> Slice(s, p, endBody), endPos |-> endBody])

\* the rest of an iteration of FindGenericMethodDefinitions once a modifier
\* that starts at modifierStart has been stepped over and '<' is at p
FindGenericMethodDefinitionsAt(s, className, st, modifierStart, p) ==
    Let(parseTypeParameterList(s, advance(s, p, 1)), LAMBDA tp :
      IF ~tp.ok THEN [st EXCEPT !.pos = p + 1]
      ELSE Let(skipToMethodName(s, skipWhitespace(s, tp.pos)), LAMBDA nm :
      IF ~nm.ok THEN [st EXCEPT !.pos = nm.pos]
      ELSE Let(parseIdentifier(s, nm.pos), LAMBDA e :
           Let(skipWhitespace(s, e), LAMBDA q :
      IF e = nm.pos THEN [st EXCEPT !.pos = e]
      ELSE IF At(s, q) # "(" THEN [st EXCEPT !.pos = q]
      ELSE Let(skipToClosingParen(s, advance(s, q, 1)), LAMBDA cp :
      IF ~cp.ok THEN [st EXCEPT !.pos = cp.pos]
      ELSE Let(skipWhitespace(s, advance(s, cp.pos, 1)), LAMBDA b :
      IF At(s, b) # "{" THEN [st EXCEPT !.pos = b]
      ELSE Let(extractMethodBody(s, b), LAMBDA body :
             [pos |-> body.endPos,
              definitions |->
                  Put(st.definitions, className \o <<".">> \o Slice(s, nm.pos, e),
                      [ClassName |-> className,
                       MethodName |-> Slice(s, nm.pos, e),
                       TypeParams |-> tp.params,
                       Signature |-> TrimSpace(Slice(s, modifierStart, b)),
                       Body |-> body.body,
                       StartPos |-> modifierStart,
                       EndPos |-> body.endPos])])))))))

\* one iteration of the loop of FindGenericMethodDefinitions;
\* st = [pos, definitions]
FindGenericMethodDefinitionsStep(s, className, st) ==
    Let(skipWhitespaceAndComments(s, st.pos), LAMBDA modifierStart :
      IF modifierStart >= Len(s) THEN [st EXCEPT !.pos = modifierStart]
      ELSE IF \A i \in 1..Len(MethodModifiers) :
                  ~matchKeyword(s, modifierStart, MethodModifiers[i])
      THEN [st EXCEPT !.pos = advance(s, modifierStart, 1)]
      ELSE Let(CHOOSE i \in 1..Len(MethodModifiers) :
                   /\ matchKeyword(s, modifierStart, MethodModifiers[i])
                   /\ \A j \in 1..(i - 1) :
                          ~matchKeyword(s, modifierStart, MethodModifiers[j]),
               LAMBDA i :
           Let(skipWhitespace(s, modifierStart + Len(MethodModifiers[i])), LAMBDA p :
             IF At(s, p) # "<" THEN [st EXCEPT !.pos = p]
             ELSE FindGenericMethodDefinitionsAt(s, className, st, modifierStart, p))))

RECURSIVE FindGenericMethodDefinitionsLoop(_, _, _)
FindGenericMethodDefinitionsLoop(s, className, st) ==
    IF st.pos < Len(s)
    THEN Let(FindGenericMethodDefinitionsStep(s, className, st),
             LAMBDA next : FindGenericMethodDefinitionsLoop(s, className, next))
    ELSE st.definitions

\* map from "ClassName.methodName" to the definition; never an error
FindGenericMethodDefinitions(s, className) ==
    FindGenericMethodDefinitionsLoop(s, className, [pos |-> 0, definitions |-> EmptyMap])

(***************************************************************************)
(* Instantiation engine (pkg/transpiler)                                   *)
(***************************************************************************)

isIdentifierChar(c) == IsLetter(c) \/ IsDigit(c) \/ c = "_"

\* the test without its look at the character after the parameter
IsParamAt_NoAfter(input, param, i) ==
    /\ MatchAt(input, i, param)
    /\ (i = 0 \/ ~isIdentifierChar(At(input, i - 1)))

\* the test replaceTypeParameter makes at offset i: param is there, between
\* word boundaries
IsParamAt(input, param, i) ==
    /\ MatchAt(input, i, param)
    /\ (i = 0 \/ ~isIdentifierChar(At(input, i - 1)))
    /\ (i + Len(param) >= Len(input) \/ ~isIdentifierChar(At(input, i + Len(param))))

RECURSIVE replaceTypeParameterFrom(_, _, _, _)
\* The loop of replaceTypeParameter from offset i on (param is not empty):
\* bytes are copied up to the next offset that passes the test, the
\* replacement is written there and the loop resumes after the parameter.
replaceTypeParameterFrom(input, param, concreteType, i) ==
    Let(FirstPos(i, Len(input), LAMBDA q : IsParamAt(input, param, q)), LAMBDA m :
      IF m >= Len(input) THEN Slice(input, i, Len(input))
      ELSE Slice(input, i, m) \o concreteType
           \o replaceTypeParameterFrom(input, param, concreteType, m + Len(param)))

replaceTypeParameter(input, param, concreteType) ==
    replaceTypeParameterFrom(input, param, concreteType, 0)

\* the replacement map of replaceGenericUsages: usages of known templates only
Replacements(templates, generics) ==
    [original \in {k \in DOMAIN generics : generics[k].BaseType \in DOMAIN templates}
        |-> GenerateConcreteClassName(generics[original])]

\* The key the loop over sortedKeys stops at: keys are tried by decreasing
\* length, so among the keys that match at one offset the longest is taken
\* (two different keys of the same length cannot both match there).
FirstSortedMatch(matching) ==
    CHOOSE k \in matching : \A k2 \in matching : Len(k) >= Len(k2)

\* the keys of the replacement map found at offset i of content
MatchingKeys(content, replacements, i) ==
    {k \in DOMAIN replacements : MatchAt(content, i, k)}

RECURSIVE replaceGenericUsagesFrom(_, _, _)
\* The copying loop of replaceGenericUsages from offset i on: bytes are
\* copied one by one up to the next comment or the next offset where a key
\* matches; a comment is copied whole, a key is replaced.
replaceGenericUsagesFrom(content, replacements, i) ==
    Let(FirstPos(i, Len(content),
                 LAMBDA q : \/ (q < Len(content) - 1 /\ At(content, q) = "/"
                                   /\ At(content, q + 1) \in {"/", "*"})
                            \/ MatchingKeys(content, replacements, q) # {}), LAMBDA m :
      IF m >= Len(content) THEN Slice(content, i, Len(content))
      ELSE IF m < Len(content) - 1 /\ At(content, m) = "/" /\ At(content, m + 1) = "/"
      THEN Let(LineEnd(content, m), LAMBDA lineEnd :
           Let(IF lineEnd < Len(content) THEN lineEnd + 1 ELSE lineEnd, LAMBDA afterLine :
             Slice(content, i, afterLine)
             \o replaceGenericUsagesFrom(content, replacements, afterLine)))
      ELSE IF m < Len(content) - 1 /\ At(content, m) = "/" /\ At(content, m + 1) = "*"
      THEN Let(BlockEnd(content, m + 2), LAMBDA afterBlock :
             Slice(content, i, afterBlock)
             \o replaceGenericUsagesFrom(content, replacements, afterBlock))
      ELSE Let(FirstSortedMatch(MatchingKeys(content, replacements, m)), LAMBDA key :
             Slice(content, i, m) \o replacements[key]
             \o replaceGenericUsagesFrom(content, replacements, m + Len(key))))

replaceGenericUsages(templates, content, generics) ==
    Let(Replacements(templates, generics), LAMBDA replacements :
      IF DOMAIN replacements = {} THEN content
      ELSE replaceGenericUsagesFrom(content, replacements, 0))

\* strconv of the small counts that appear in messages
Itoa(n) == <<CHOOSE d \in Digits :
                d = <<"0","1","2","3","4","5","6","7","8","9">>[n + 1]>>

\* strings.Replace(s, old, new, 1)
ReplaceFirst(s, old, new) ==
    Let(Index(s, old), LAMBDA i :
      IF i = -1 THEN s
      ELSE Slice(s, 0, i) \o new \o Slice(s, i + Len(old), Len(s)))

S_ErrorPrefix ==
    <<"/","/"," ","E","R","R","O","R",":"," ","T","y","p","e"," ",
      "p","a","r","a","m","e","t","e","r"," ","m","i","s","m","a","t","c","h"," ",
      "f","o","r"," ">>

S_Expected == <<" ","(","e","x","p","e","c","t","e","d"," ">>

S_Got == <<",", " ","g","o","t"," ">>

S_PublicClass == <<"p","u","b","l","i","c"," ","c","l","a","s","s"," ">>

\* the error comment without the two counts
MismatchComment_NoCounts(name, expected, got) == S_ErrorPrefix \o name

\* fmt.Sprintf("// ERROR: Type parameter mismatch for %s (expected %d, got %d)")
MismatchComment(name, expected, got) ==
    S_ErrorPrefix \o name \o S_Expected \o Itoa(expected) \o S_Got \o Itoa(got) \o <<")">>

RECURSIVE SubstituteInOrder_Mangled(_, _, _, _)
\* Pass 1 writing the mangled name of each argument instead of its rendering
SubstituteInOrder_Mangled(output, template, instantiation, order) ==
    IF order = <<>> THEN output
    ELSE Let(replaceTypeParameter(output, template.TypeParams[Head(order)],
                 GenerateConcreteClassName(instantiation.TypeArgs[Head(order)])),
             LAMBDA replaced :
               SubstituteInOrder_Mangled(replaced, template, instantiation, Tail(order)))

RECURSIVE SubstituteInOrder(_, _, _, _)
\* Pass 1: the loop over the substitutions map, visited in the order given
\* by order (a permutation of the parameter indexes)
SubstituteInOrder(output, template, instantiation, order) ==
    IF order = <<>> THEN output
    ELSE Let(replaceTypeParameter(output, template.TypeParams[Head(order)],
                                  String(instantiation.TypeArgs[Head(order)])),
             LAMBDA replaced :
               SubstituteInOrder(replaced, template, instantiation, Tail(order)))

\* order: the order in which Go's map iteration visits the substitutions
instantiateTemplate(templates, template, instantiation, order, sharedLoopVar) ==
    IF Len(template.TypeParams) # Len(instantiation.TypeArgs)
    THEN MismatchComment(template.ClassName, Len(template.TypeParams),
                         Len(instantiation.TypeArgs))
    ELSE Let(SubstituteInOrder(template.Body, template, instantiation, order),
         LAMBDA pass1 :
         Let(FindGenerics(pass1, sharedLoopVar), LAMBDA generics :
         Let(replaceGenericUsages(templates, pass1, generics), LAMBDA pass2 :
         Let(GenerateConcreteClassName(instantiation), LAMBDA concreteName :
         Let(ReplaceFirst(pass2,
                 <<"<">> \o Join(template.TypeParams, <<",", " ">>) \o <<">">>, <<>>),
             LAMBDA undeclared :
               S_PublicClass \o concreteName \o <<" ">>
               \o replaceTypeParameter(undeclared, template.ClassName, concreteName))))))

(***************************************************************************)
(* Generic-method instantiation (pkg/transpiler)                           *)
(***************************************************************************)

\* parser.GenerateConcreteMethodName
GenerateConcreteMethodName(methodName, typeArgs) ==
    IF typeArgs = <<>> THEN methodName ELSE methodName \o Join(typeArgs, <<>>)

\* the substitutions map of instantiateMethod: a parameter listed twice
\* keeps the argument of its last position
MethodSubstitutions(methodDef, typeArgs) ==
    [param \in {methodDef.TypeParams[i] : i \in 1..Len(methodDef.TypeParams)} |->
        typeArgs[CHOOSE i \in 1..Len(typeArgs) :
                    /\ methodDef.TypeParams[i] = param
                    /\ \A j \in (i + 1)..Len(typeArgs) : methodDef.TypeParams[j] # param]]

RECURSIVE SubstituteParams(_, _, _)
\* a loop over the substitutions map, visited in the order given
SubstituteParams(text, substitutions, order) ==
    IF order = <<>> THEN text
    ELSE Let(replaceTypeParameter(text, Head(order), substitutions[Head(order)]),
             LAMBDA replaced : SubstituteParams(replaced, substitutions, Tail(order)))

\* signatureOrder, bodyOrder: the orders in which Go's map iteration visits
\* the substitutions in Pass 2 and in Pass 4
instantiateMethod(methodDef, typeArgs, signatureOrder, bodyOrder) ==
    IF Len(methodDef.TypeParams) # Len(typeArgs)
    THEN MismatchComment(methodDef.MethodName, Len(methodDef.TypeParams), Len(typeArgs))
    ELSE Let(MethodSubstitutions(methodDef, typeArgs), LAMBDA substitutions :
         Let(GenerateConcreteMethodName(methodDef.MethodName, typeArgs),
             LAMBDA concreteMethodName :
         Let(ReplaceFirst(methodDef.Signature,
                 <<"<">> \o Join(methodDef.TypeParams, <<",", " ">>) \o <<">">>, <<>>),
             LAMBDA undeclared :
         Let(SubstituteParams(undeclared, substitutions, signatureOrder), LAMBDA pass2 :
           replaceTypeParameter(pass2, methodDef.MethodName, concreteMethodName)
           \o <<" ">>
           \o SubstituteParams(methodDef.Body, substitutions, bodyOrder)))))

\* the results instantiateMethod can return, over the orders of its two loops
instantiateMethodOutcomes(methodDef, typeArgs) ==
    IF Len(methodDef.TypeParams) # Len(typeArgs)
    THEN {instantiateMethod(methodDef, typeArgs, <<>>, <<>>)}
    ELSE Let(Perms({methodDef.TypeParams[i] : i \in 1..Len(methodDef.TypeParams)}),
             LAMBDA orders :
               {instantiateMethod(methodDef, typeArgs, signatureOrder, bodyOrder) :
                   signatureOrder \in orders, bodyOrder \in orders})

RECURSIVE Split(_, _)
\* strings.Split(s, sep) for a separator of one byte
Split(s, sep) ==
    Let(Index(s, sep), LAMBDA i :
      IF i = -1 THEN <<s>>
      ELSE <<Slice(s, 0, i)>> \o Split(Slice(s, i + 1, Len(s)), sep))

\* strings.LastIndex(s, w); -1 when absent
LastIndex(s, w) ==
    IF Contains(s, w)
    THEN CHOOSE p \in 0..Len(s) :
             MatchAt(s, p, w) /\ \A q \in (p + 1)..Len(s) : ~MatchAt(s, q, w)
    ELSE -1

S_GeneratedMethods == <<"\n"," "," "," "," ","/","/"," ","G","e","n","e","r","a","t","e","d"," ","c","o","n","c","r","e","t","e"," ","m","e","t","h","o","d","s","\n">>

S_Indent == <<" "," "," "," ">>

RECURSIVE IndentLines(_)
\* the non-empty lines of a method, each indented and ended by a newline
IndentLines(lines) ==
    IF lines = <<>> THEN <<>>
    ELSE (IF Head(lines) # <<>> THEN S_Indent \o Head(lines) \o <<"\n">> ELSE <<>>)
         \o IndentLines(Tail(lines))

RECURSIVE MethodsBlock(_)
MethodsBlock(methods) ==
    IF methods = <<>> THEN <<>>
    ELSE IndentLines(Split(Head(methods), <<"\n">>)) \o <<"\n">> \o MethodsBlock(Tail(methods))

insertMethods(content, methods) ==
    Let(LastIndex(content, <<"}">>), LAMBDA lastBraceIdx :
      IF lastBraceIdx = -1 THEN content
      ELSE Slice(content, 0, lastBraceIdx) \o S_GeneratedMethods \o MethodsBlock(methods)
           \o Slice(content, lastBraceIdx, Len(content)))

\* the end of the word of strings.Fields that starts at p
WordEnd(s, p) == FirstPos(p, Len(s), LAMBDA q : IsSpace(At(s, q)))

\* the word "class" stands at p and another word follows it on its line
ClassWordAt(s, p) ==
    /\ ~IsSpace(At(s, p))
    /\ (p = 0 \/ IsSpace(At(s, p - 1)))
    /\ Slice(s, p, WordEnd(s, p)) = S_class
    /\ Let(skipWhitespace(s, p + 5), LAMBDA q :
          q < Len(s) /\ \A i \in (p + 5)..(q - 1) : At(s, i) # "\n")

\* extractClassName: the word after the first word "class" that has a word
\* after it on its line, cut at its first '<' or '{'; "" when there is none
extractClassName(content) ==
    IF \A p \in 0..(Len(content) - 1) : ~ClassWordAt(content, p) THEN <<>>
    ELSE Let(FirstPos(0, Len(content), LAMBDA p : ClassWordAt(content, p)), LAMBDA p :
         Let(skipWhitespace(content, p + 5), LAMBDA q :
           Slice(content, q,
                 FirstPos(q, WordEnd(content, q),
                          LAMBDA i : At(content, i) \in {"<", "{"}))))

(***************************************************************************)
(* Input files                                                             *)
(***************************************************************************)

\* Queue.peak: class Queue<T> { List<T> items; /* Queue<T> */ }
QueuePeak ==
    [Path |-> <<"Q","u","e","u","e",".","p","e","a","k">>,
     Content |->
        <<"c","l","a","s","s"," ","Q","u","e","u","e","<","T",">"," ","{",
          " ","L","i","s","t","<","T",">"," ","i","t","e","m","s",";"," ",
          "/","*"," ","Q","u","e","u","e","<","T",">"," ","*","/"," ","}">>]

\* Dict.peak: class Dict<K, V> { Queue<K> keys; V v; }
DictPeak ==
    [Path |-> <<"D","i","c","t",".","p","e","a","k">>,
     Content |->
        <<"c","l","a","s","s"," ","D","i","c","t","<","K",","," ","V",">",
          " ","{"," ","Q","u","e","u","e","<","K",">"," ","k","e","y","s",
          ";"," ","V"," ","v",";"," ","}">>]

\* Wrapper.peak: class Wrapper<T> { T value; List<Queue<T>> all; }
WrapperPeak ==
    [Path |-> <<"W","r","a","p","p","e","r",".","p","e","a","k">>,
     Content |->
        <<"c","l","a","s","s"," ","W","r","a","p","p","e","r","<","T",">",
          " ","{"," ","T"," ","v","a","l","u","e",";"," ","L","i","s","t",
          "<","Q","u","e","u","e","<","T",">",">"," ","a","l","l",";"," ",
          "}">>]

\* Bad.peak: class Bad<<T>> {}
BadPeak ==
    [Path |-> <<"B","a","d",".","p","e","a","k">>,
     Content |->
        <<"c","l","a","s","s"," ","B","a","d","<","<","T",">",">"," ","{",
          "}">>]

\* UseDict.peak: Dict<String, Integer> d;
UseDictPeak ==
    [Path |-> <<"U","s","e","D","i","c","t",".","p","e","a","k">>,
     Content |->
        <<"D","i","c","t","<","S","t","r","i","n","g",","," ","I","n","t",
          "e","g","e","r",">"," ","d",";">>]

\* Nested.peak: Dict<String, Queue<Integer>> d; // Queue<String>\n
NestedPeak ==
    [Path |-> <<"N","e","s","t","e","d",".","p","e","a","k">>,
     Content |->
        <<"D","i","c","t","<","S","t","r","i","n","g",","," ","Q","u","e",
          "u","e","<","I","n","t","e","g","e","r",">",">"," ","d",";"," ",
          "/","/"," ","Q","u","e","u","e","<","S","t","r","i","n","g",">",
          "\n">>]

\* First.peak: Dict<Queue<Integer>, String> d;
FirstPeak ==
    [Path |-> <<"F","i","r","s","t",".","p","e","a","k">>,
     Content |->
        <<"D","i","c","t","<","Q","u","e","u","e","<","I","n","t","e","g",
          "e","r",">",","," ","S","t","r","i","n","g",">"," ","d",";">>]

\* ListArg.peak: Queue<List<Integer>> q; Wrapper<Map<String, Integer>> w;
ListArgPeak ==
    [Path |-> <<"L","i","s","t","A","r","g",".","p","e","a","k">>,
     Content |->
        <<"Q","u","e","u","e","<","L","i","s","t","<","I","n","t","e","g",
          "e","r",">",">"," ","q",";"," ","W","r","a","p","p","e","r","<",
          "M","a","p","<","S","t","r","i","n","g",","," ","I","n","t","e",
          "g","e","r",">",">"," ","w",";">>]

\* InList.peak: List<Queue<Integer>> l;
InListPeak ==
    [Path |-> <<"I","n","L","i","s","t",".","p","e","a","k">>,
     Content |->
        <<"L","i","s","t","<","Q","u","e","u","e","<","I","n","t","e","g",
          "e","r",">",">"," ","l",";">>]

\* Deep.peak: Dict<String, List<Queue<Integer>>> d;
DeepPeak ==
    [Path |-> <<"D","e","e","p",".","p","e","a","k">>,
     Content |->
        <<"D","i","c","t","<","S","t","r","i","n","g",","," ","L","i","s",
          "t","<","Q","u","e","u","e","<","I","n","t","e","g","e","r",">",
          ">",">"," ","d",";">>]

\* BuiltIn.peak: List<String> l; Map<String, Set<Integer>> m; if (x < 5) {}
BuiltInPeak ==
    [Path |-> <<"B","u","i","l","t","I","n",".","p","e","a","k">>,
     Content |->
        <<"L","i","s","t","<","S","t","r","i","n","g",">"," ","l",";"," ",
          "M","a","p","<","S","t","r","i","n","g",","," ","S","e","t","<",
          "I","n","t","e","g","e","r",">",">"," ","m",";"," ","i","f"," ",
          "(","x"," ","<"," ","5",")"," ","{","}">>]

\* Sets.peak: Set<Id> ids; // Queue<Id>\nif (n <= 5) { Map<Id, List<String>> m; }
SetsPeak ==
    [Path |-> <<"S","e","t","s",".","p","e","a","k">>,
     Content |->
        <<"S","e","t","<","I","d",">"," ","i","d","s",";"," ","/","/"," ",
          "Q","u","e","u","e","<","I","d",">","\n","i","f"," ","(","n"," ",
          "<","="," ","5",")"," ","{"," ","M","a","p","<","I","d",","," ",
          "L","i","s","t","<","S","t","r","i","n","g",">",">"," ","m",";",
          " ","}">>]

\* lib/Queue.peak: class Queue<T> { Set<T> items; }
LibQueuePeak ==
    [Path |-> <<"l","i","b","/","Q","u","e","u","e",".","p","e","a","k">>,
     Content |->
        <<"c","l","a","s","s"," ","Q","u","e","u","e","<","T",">"," ","{",
          " ","S","e","t","<","T",">"," ","i","t","e","m","s",";"," ","}">>]

\* Arity.peak: Dict<String> d; Queue<Integer> q;
ArityPeak ==
    [Path |-> <<"A","r","i","t","y",".","p","e","a","k">>,
     Content |->
        <<"D","i","c","t","<","S","t","r","i","n","g",">"," ","d",";"," ",
          "Q","u","e","u","e","<","I","n","t","e","g","e","r",">"," ","q",
          ";">>]

\* Suffix.peak: MyQueue<Integer> m; Queue<Integer> q;
SuffixPeak ==
    [Path |-> <<"S","u","f","f","i","x",".","p","e","a","k">>,
     Content |->
        <<"M","y","Q","u","e","u","e","<","I","n","t","e","g","e","r",">",
          " ","m",";"," ","Q","u","e","u","e","<","I","n","t","e","g","e",
          "r",">"," ","q",";">>]

\* Util.peak: class Util { public <K> K first(K key) { K k; } }
UtilPeak ==
    [Path |-> <<"U","t","i","l",".","p","e","a","k">>,
     Content |->
        <<"c","l","a","s","s"," ","U","t","i","l"," ","{"," ","p","u","b",
          "l","i","c"," ","<","K",">"," ","K"," ","f","i","r","s","t","(",
          "K"," ","k","e","y",")"," ","{"," ","K"," ","k",";"," ","}"," ",
          "}">>]

Corpus ==
    {QueuePeak,
     DictPeak,
     WrapperPeak,
     BadPeak,
     UseDictPeak,
     NestedPeak,
     FirstPeak,
     ListArgPeak,
     InListPeak,
     DeepPeak,
     BuiltInPeak,
     SetsPeak,
     LibQueuePeak,
     ArityPeak,
     SuffixPeak,
     UtilPeak}

\* Box.peak: class Box<T> { public <K> K get(K k) { T t; } }
BoxPeak ==
    [Path |-> <<"B","o","x",".","p","e","a","k">>,
     Content |->
        <<"c","l","a","s","s"," ","B","o","x","<","T",">"," ","{"," ","p",
          "u","b","l","i","c"," ","<","K",">"," ","K"," ","g","e","t","(",
          "K"," ","k",")"," ","{"," ","T"," ","t",";"," ","}"," ","}">>]

\* Spacing.peak: Dict<String,Integer> a; Dict<String, Integer> b;
SpacingPeak ==
    [Path |-> <<"S","p","a","c","i","n","g",".","p","e","a","k">>,
     Content |->
        <<"D","i","c","t","<","S","t","r","i","n","g",",","I","n","t","e",
          "g","e","r",">"," ","a",";"," ","D","i","c","t","<","S","t","r",
          "i","n","g",","," ","I","n","t","e","g","e","r",">"," ","b",";">>]

\* Inner.peak: List<Dict<String, Queue<Integer>>> l; Queue<Integer> q;
InnerPeak ==
    [Path |-> <<"I","n","n","e","r",".","p","e","a","k">>,
     Content |->
        <<"L","i","s","t","<","D","i","c","t","<","S","t","r","i","n","g",
          ","," ","Q","u","e","u","e","<","I","n","t","e","g","e","r",">",
          ">",">"," ","l",";"," ","Q","u","e","u","e","<","I","n","t","e",
          "g","e","r",">"," ","q",";">>]

\* Broken.peak: class Queue<T> {} class Bad<<T>> {}
BrokenPeak ==
    [Path |-> <<"B","r","o","k","e","n",".","p","e","a","k">>,
     Content |->
        <<"c","l","a","s","s"," ","Q","u","e","u","e","<","T",">"," ","{",
          "}"," ","c","l","a","s","s"," ","B","a","d","<","<","T",">",">",
          " ","{","}">>]

\* Swap.peak: Dict<V, Integer> x;
SwapPeak ==
    [Path |-> <<"S","w","a","p",".","p","e","a","k">>,
     Content |->
        <<"D","i","c","t","<","V",","," ","I","n","t","e","g","e","r",">",
          " ","x",";">>]

\* inputs compiled on their own, with the templates and the class they use
FurtherCorpus ==
    {QueuePeak,
     DictPeak,
     UtilPeak,
     BoxPeak,
     SpacingPeak,
     InnerPeak,
     BrokenPeak,
     SwapPeak}

Inputs == Corpus \cup FurtherCorpus

\* what FindGenericClassDefinitions returns for the content of each input
\* file, parsed once
ClassDefinitionsOf == [file \in Inputs |-> FindGenericClassDefinitions(file.Content)]

RECURSIVE MethodsOfClasses(_, _)
\* the generic methods found in content, keyed once per class name given
MethodsOfClasses(content, classNames) ==
    IF classNames = {} THEN EmptyMap
    ELSE Let(CHOOSE c \in classNames : TRUE, LAMBDA className :
         Let(FindGenericMethodDefinitions(content, className), LAMBDA methods :
         Let(MethodsOfClasses(content, classNames \ {className}), LAMBDA rest :
           [key \in (DOMAIN methods) \cup (DOMAIN rest) |->
               IF key \in DOMAIN methods THEN methods[key] ELSE rest[key]])))

\* the method templates one iteration of the loop of collectMethodTemplates
\* stores for a file: none when its class definitions do not parse, those
\* keyed by each template class it defines, or else those keyed by the name
\* extractClassName finds. FindGenericMethodDefinitions returns no error.
fileMethodTemplates(file) ==
    LET r == ClassDefinitionsOf[file]
    IN IF r.err # NoError THEN EmptyMap
       ELSE IF DOMAIN r.defs # {} THEN MethodsOfClasses(file.Content, DOMAIN r.defs)
       ELSE IF extractClassName(file.Content) # <<>>
       THEN FindGenericMethodDefinitions(file.Content, extractClassName(file.Content))
       ELSE EmptyMap

\* the same for each input file, parsed once
MethodDefinitionsOf == [file \in Inputs |-> fileMethodTemplates(file)]

\* getContentToScan: the bodies of the definitions of a template file joined
\* in the order Go visits the map of definitions, the whole content otherwise
getContentToScan(file) ==
    LET defs == ClassDefinitionsOf[file].defs
        content == file.Content
    IN IF DOMAIN defs # {}
       THEN {Join([i \in 1..Len(order) |-> defs[order[i]].Body], <<"\n">>) :
                order \in Perms(DOMAIN defs)}
       ELSE {content}

\* what FindGenerics returns for the whole content of each input file
GenericsOf ==
    [file \in Inputs |-> [sharedLoopVar \in BOOLEAN |->
        FindGenerics(file.Content, sharedLoopVar)]]

\* what FindGenerics can return for the content collectUsages scans of each
\* input file: one map per order of getContentToScan
ScannedGenericsOf ==
    [file \in Inputs |-> [sharedLoopVar \in BOOLEAN |->
        {FindGenerics(c, sharedLoopVar) : c \in getContentToScan(file)}]]

(***************************************************************************)
(* Orchestrator (Transpiler.TranspileFiles)                                *)
(***************************************************************************)

S_peak == <<".","p","e","a","k">>

S_cls == <<".","c","l","s">>

S_peakconfig == <<"p","e","a","k","c","o","n","f","i","g",".","j","s","o","n">>

\* the resolver NewTranspiler installs when it is given nil:
\* strings.TrimSuffix(sourcePath, ".peak") + ".cls"
outputPathFn(sourcePath) ==
    (IF Len(sourcePath) >= Len(S_peak)
        /\ MatchAt(sourcePath, Len(sourcePath) - Len(S_peak), S_peak)
     THEN Slice(sourcePath, 0, Len(sourcePath) - Len(S_peak))
     ELSE sourcePath) \o S_cls

\* the offset of the last "/" of path, -1 when there is none
LastSlash(path) ==
    IF \E i \in 1..Len(path) : path[i] = "/"
    THEN (CHOOSE i \in 1..Len(path) :
              path[i] = "/" /\ \A j \in (i + 1)..Len(path) : path[j] # "/") - 1
    ELSE -1

\* filepath.Dir for a clean path
Dir(path) ==
    IF LastSlash(path) = -1 THEN <<".">>
    ELSE IF LastSlash(path) = 0 THEN <<"/">>
    ELSE Slice(path, 0, LastSlash(path))

\* filepath.Join(dir, name) for a clean dir and a plain file name
PathJoin(dir, name) ==
    IF dir = <<".">> THEN name
    ELSE IF dir = <<"/">> THEN dir \o name
    ELSE dir \o <<"/">> \o name

ErrorResult(path, err) ==
    [OriginalPath |-> path, OutputPath |-> <<>>, Content |-> <<>>,
     IsTemplate |-> FALSE, Error |-> err]

TemplateResult(path) ==
    [OriginalPath |-> path, OutputPath |-> <<>>, Content |-> <<>>,
     IsTemplate |-> TRUE, Error |-> NoError]

OutputResult(path, outputPath, content) ==
    [OriginalPath |-> path, OutputPath |-> outputPath, Content |-> content,
     IsTemplate |-> FALSE, Error |-> NoError]

\* append(results, r): the slice of results is kept as a bag, its order
\* being the order of Go's randomised map iteration
AppendResult(results, r) == results (+) SetToBag({r})

RECURSIVE collectTemplatesIn(_, _)
\* collectTemplates that gives up at the first file with an error
collectTemplatesIn_StopAtError(order, st) ==
    IF order = <<>> THEN st
    ELSE LET file == Head(order)
             r == ClassDefinitionsOf[file]
         IN IF r.err # NoError
            THEN [st EXCEPT !.hasErrors = TRUE,
                            !.results = AppendResult(@, ErrorResult(file.Path, r.err))]
            ELSE collectTemplatesIn(Tail(order),
                     [st EXCEPT
                        !.templates =
                            [c \in (DOMAIN @) \cup (DOMAIN r.defs) |->
                                IF c \in DOMAIN r.defs THEN r.defs[c] ELSE @[c]],
                        !.templatePaths =
                            [c \in (DOMAIN @) \cup (DOMAIN r.defs) |->
                                IF c \in DOMAIN r.defs THEN file.Path ELSE @[c]]])

\* collectTemplates (Phase 1) visiting the files in the order given;
\* st = [templates, templatePaths, results, hasErrors]
collectTemplatesIn(order, st) ==
    IF order = <<>> THEN st
    ELSE LET file == Head(order)
             r == ClassDefinitionsOf[file]
         IN Let(IF r.err # NoError
                THEN [st EXCEPT !.hasErrors = TRUE,
                                !.results = AppendResult(@, ErrorResult(file.Path, r.err))]
                ELSE [st EXCEPT
                        !.templates =
                            [c \in (DOMAIN @) \cup (DOMAIN r.defs) |->
                                IF c \in DOMAIN r.defs THEN r.defs[c] ELSE @[c]],
                        !.templatePaths =
                            [c \in (DOMAIN @) \cup (DOMAIN r.defs) |->
                                IF c \in DOMAIN r.defs THEN file.Path ELSE @[c]]],
                LAMBDA next : collectTemplatesIn(Tail(order), next))

\* what collectTemplates can leave behind, over the visiting orders
collectTemplates(batch, st) == {collectTemplatesIn(order, st) : order \in Perms(batch)}

RECURSIVE collectMethodTemplatesIn(_, _)
\* collectMethodTemplates (Phase 1.1) visiting the files in the order given
collectMethodTemplatesIn(order, st) ==
    IF order = <<>> THEN st
    ELSE Let(MethodDefinitionsOf[Head(order)], LAMBDA methods :
         Let([st EXCEPT !.methodTemplates =
                 [key \in (DOMAIN @) \cup (DOMAIN methods) |->
                     IF key \in DOMAIN methods THEN methods[key] ELSE @[key]]],
             LAMBDA next : collectMethodTemplatesIn(Tail(order), next)))

\* what collectMethodTemplates can leave behind, over the visiting orders
collectMethodTemplates(batch, st) ==
    {collectMethodTemplatesIn(order, st) : order \in Perms(batch)}

UndefinedMethodError ==
    [Message |-> "method instantiation references undefined generic method",
     Line |-> 0, Column |-> 0]

RECURSIVE processMethodInstantiationsFrom(_, _, _)
\* the loop of processMethodInstantiations (Phase 1.6) over the keys of
\* instantiateSpec.Methods not yet visited; what it leaves behind does not
\* depend on the order
processMethodInstantiationsFrom(todo, methods, st) ==
    IF todo = {} THEN st
    ELSE Let(CHOOSE k \in todo : TRUE, LAMBDA methodKey :
         Let(IF methodKey \notin DOMAIN st.methodTemplates
             THEN [st EXCEPT !.hasErrors = TRUE,
                             !.results = AppendResult(@,
                                 ErrorResult(S_peakconfig, UndefinedMethodError))]
             ELSE IF methods[methodKey] = <<>> THEN st
             ELSE [st EXCEPT !.methodUsages =
                      Put(@, methodKey,
                          (IF methodKey \in DOMAIN @ THEN @[methodKey] ELSE <<>>)
                          \o methods[methodKey])],
             LAMBDA next :
               processMethodInstantiationsFrom(todo \ {methodKey}, methods, next)))

\* methods: instantiateSpec.Methods, empty when instantiateSpec is nil
processMethodInstantiations(methods, st) ==
    processMethodInstantiationsFrom(DOMAIN methods, methods, st)

\* parseInstantiation: [ok, expr]
parseInstantiation(instantiation, sharedLoopVar) ==
    Let(FindGenerics(instantiation, sharedLoopVar), LAMBDA generics :
       IF Cardinality(DOMAIN generics) = 1
       THEN [ok |-> TRUE, expr |-> generics[CHOOSE k \in DOMAIN generics : TRUE],
             err |-> NoError]
       ELSE [ok |-> FALSE, expr |-> SimpleExpr(<<>>),
             err |-> [Message |-> IF DOMAIN generics = {}
                                  THEN "invalid instantiation: no generic expression found"
                                  ELSE "invalid instantiation: multiple generic expressions found, expected one",
                      Line |-> 0, Column |-> 0]])

UndefinedTemplateError ==
    [Message |-> "instantiation references undefined template", Line |-> 0, Column |-> 0]

RECURSIVE processInstantiationsFrom(_, _, _)
\* the loop of processInstantiations (Phase 1.5) over the forced
\* instantiations not yet visited; st = [templates, usages, results, hasErrors]
processInstantiationsFrom(todo, st, sharedLoopVar) ==
    IF todo = <<>> THEN st
    ELSE LET instantiation == Head(todo)
         IN Let(parseInstantiation(instantiation, sharedLoopVar), LAMBDA r :
            Let(IF ~r.ok
                THEN [st EXCEPT !.hasErrors = TRUE,
                                !.results = AppendResult(@, ErrorResult(S_peakconfig, r.err))]
                ELSE IF r.expr.BaseType \notin DOMAIN st.templates
                THEN [st EXCEPT !.hasErrors = TRUE,
                                !.results = AppendResult(@,
                                    ErrorResult(S_peakconfig, UndefinedTemplateError))]
                ELSE [st EXCEPT !.usages = Put(@, instantiation, r.expr)],
                LAMBDA next : processInstantiationsFrom(Tail(todo), next, sharedLoopVar)))

processInstantiations(forced, st, sharedLoopVar) ==
    processInstantiationsFrom(forced, st, sharedLoopVar)

RECURSIVE collectUsagesIn(_, _, _)
\* collectUsages (Phase 2) visiting the files in the order given; found[path]
\* is the map FindGenerics returned for the content scanned of that file.
\* FindGenerics returns no error, so the error branch is never taken.
collectUsagesIn(order, found, st) ==
    IF order = <<>> THEN st
    ELSE LET generics == found[Head(order).Path]
             tracked == {k \in DOMAIN generics : generics[k].BaseType \in DOMAIN st.templates}
         IN Let([st EXCEPT !.usages =
                    [k \in (DOMAIN @) \cup tracked |->
                        IF k \in tracked THEN generics[k] ELSE @[k]]],
                LAMBDA next : collectUsagesIn(Tail(order), found, next))

\* what each file's scan can return: one map per order of getContentToScan
ScanOutcomes(batch, sharedLoopVar) ==
    LET paths == {file.Path : file \in batch}
        outcomes(path) ==
            ScannedGenericsOf[CHOOSE file \in batch : file.Path = path][sharedLoopVar]
    IN {found \in [paths -> UNION {outcomes(path) : path \in paths}] :
            \A path \in paths : found[path] \in outcomes(path)}

collectUsages(batch, st, sharedLoopVar) ==
    {collectUsagesIn(order, found, st) :
        order \in Perms(batch), found \in ScanOutcomes(batch, sharedLoopVar)}

\* the type arguments of one entry of a method's list: split at the commas
\* and trimmed
MethodTypeArgs(typeArg) ==
    Let(Split(typeArg, <<",">>), LAMBDA parts :
      [i \in 1..Len(parts) |-> TrimSpace(parts[i])])

\* the method usages that belong to the class: keys "className.method"
MethodKeysOf(st, className) ==
    {methodKey \in DOMAIN st.methodUsages :
        /\ Len(Split(methodKey, <<".">>)) = 2
        /\ Split(methodKey, <<".">>)[1] = className
        /\ methodKey \in DOMAIN st.methodTemplates}

RECURSIVE ConcreteMethodsOf(_, _, _)
\* the concrete methods of one usage from its i-th type argument on: the
\* lists instantiateMethod can produce
ConcreteMethodsOf(st, methodKey, i) ==
    IF i > Len(st.methodUsages[methodKey]) THEN {<<>>}
    ELSE Let(instantiateMethodOutcomes(st.methodTemplates[methodKey],
                 MethodTypeArgs(st.methodUsages[methodKey][i])), LAMBDA first :
         Let(ConcreteMethodsOf(st, methodKey, i + 1), LAMBDA rest :
           {<<m>> \o r : m \in first, r \in rest}))

RECURSIVE ConcreteMethodsIn(_, _)
\* the list concreteMethods when the usages are visited in the order given
ConcreteMethodsIn(st, order) ==
    IF order = <<>> THEN {<<>>}
    ELSE Let(ConcreteMethodsOf(st, Head(order), 1), LAMBDA first :
         Let(ConcreteMethodsIn(st, Tail(order)), LAMBDA rest :
           {f \o r : f \in first, r \in rest}))

\* the method part of transpileFile: the contents it can return for output
WithConcreteMethods(st, output) ==
    Let(extractClassName(output), LAMBDA className :
      IF className = <<>> \/ DOMAIN st.methodUsages = {} THEN {output}
      ELSE {IF concreteMethods = <<>> THEN output
            ELSE insertMethods(output, concreteMethods) :
               concreteMethods \in
                   UNION {ConcreteMethodsIn(st, order) :
                             order \in Perms(MethodKeysOf(st, className))}})

\* transpileFile that takes a template file for an ordinary one
transpileFile_TemplateEmitted(st, file, sharedLoopVar) ==
    {OutputResult(file.Path, outputPathFn(file.Path), content) :
        content \in WithConcreteMethods(st,
            replaceGenericUsages(st.templates, file.Content,
                                 GenericsOf[file][sharedLoopVar]))}

\* transpileFile (Phase 3): the results it can return for file, over the
\* orders in which the method usages and the substitutions are visited
transpileFile(st, file, sharedLoopVar) ==
    LET r == ClassDefinitionsOf[file]
    IN IF r.err # NoError THEN {ErrorResult(file.Path, r.err)}
       ELSE IF DOMAIN r.defs # {} THEN {TemplateResult(file.Path)}
       ELSE {OutputResult(file.Path, outputPathFn(file.Path), content) :
                content \in WithConcreteMethods(st,
                    replaceGenericUsages(st.templates, file.Content,
                                         GenericsOf[file][sharedLoopVar]))}

\* the result generateConcreteClasses appends for one usage
ConcreteResult(st, expr, order, sharedLoopVar) ==
    OutputResult(<<>>,
        outputPathFn(PathJoin(Dir(st.templatePaths[expr.BaseType]),
                              GenerateConcreteClassName(expr) \o S_peak)),
        instantiateTemplate(st.templates, st.templates[expr.BaseType], expr, order,
                            sharedLoopVar))

RECURSIVE generateConcreteClassesFor(_, _, _)
\* generateConcreteClasses (Phase 4) for the usages with the keys given: the
\* bags of results it can return, over the orders of Pass 1
generateConcreteClassesFor(keys, st, sharedLoopVar) ==
    IF keys = {} THEN {EmptyBag}
    ELSE Let(CHOOSE x \in keys : TRUE, LAMBDA k :
         Let(generateConcreteClassesFor(keys \ {k}, st, sharedLoopVar), LAMBDA rest :
           IF st.usages[k].BaseType \notin DOMAIN st.templates THEN rest
           ELSE Let({ConcreteResult(st, st.usages[k], order, sharedLoopVar) :
                        order \in Perms(1..Len(st.templates[st.usages[k].BaseType].TypeParams))},
                    LAMBDA outcomes : {AppendResult(b, r) : b \in rest, r \in outcomes})))

generateConcreteClasses(st, sharedLoopVar) ==
    generateConcreteClassesFor(DOMAIN st.usages, st, sharedLoopVar)

RECURSIVE transpileAll(_, _, _)
\* the loop of Phase 3 over the files of the batch: the bags of results it
\* can append
transpileAll(batch, st, sharedLoopVar) ==
    IF batch = {} THEN {EmptyBag}
    ELSE Let(CHOOSE x \in batch : TRUE, LAMBDA file :
         Let(transpileAll(batch \ {file}, st, sharedLoopVar), LAMBDA rest :
           {AppendResult(b, r) : b \in rest, r \in transpileFile(st, file, sharedLoopVar)}))

\* the most files given to one TranspileFiles call
MaxFiles == 3

Batches == {b \in SUBSET Corpus : b # {} /\ Cardinality(b) <= MaxFiles}

(***************************************************************************)
(* The transpiler as a state machine                                       *)
(***************************************************************************)

VARIABLES
    templates,        \* Transpiler.templates
    templatePaths,    \* Transpiler.templatePaths
    methodTemplates,  \* Transpiler.methodTemplates
    usages,           \* Transpiler.usages
    methodUsages,     \* Transpiler.methodUsages
    instantiations,   \* Transpiler.instantiations
    instantiateSpec,  \* Transpiler.instantiateSpec.Methods; empty when nil
    files,            \* the argument of the last TranspileFiles call
    results,          \* what that call returned
    hasErrors,        \* the flag of that call when it returned
    phase,            \* "new": constructed; "done": TranspileFiles returned;
                      \* "reused": it returned a second time
    loopVarShared,    \* the build shares the variable of a range loop
    scan,             \* a Parser inside FindGenerics: input, pos, generics
    rtp,              \* a call of replaceTypeParameter and what it returned
    naming,           \* two calls of GenerateConcreteClassName and their results
    defScan,          \* a call of FindGenericClassDefinitions and what it returned
    loop,             \* a Parser inside the loop of one of its three scanners
    watchState,       \* where runWatch stands: "off", "initial", "watching", "returned"
    ctxDone,          \* the context of the watcher has been cancelled
    debounceTimer,    \* the variable debounceTimer of watchLoop; 0 when nil
    timers,           \* the timers time.AfterFunc has created and their callbacks
    event             \* the event watchLoop received last

vars == <<templates, templatePaths, methodTemplates, usages, methodUsages,
          instantiations, instantiateSpec, files, results, hasErrors, phase,
          loopVarShared, scan, rtp, naming, defScan, loop, watchState, ctxDone,
          debounceTimer, timers, event>>

watchVars == <<watchState, ctxDone, debounceTimer, timers, event>>

\* no parser at work
NoScan == [input |-> <<>>, pos |-> 0, generics |-> EmptyMap]

\* no call of replaceTypeParameter
NoCall == [input |-> <<>>, param |-> <<>>, concreteType |-> <<>>, output |-> <<>>,
           returned |-> FALSE]

\* no call of GenerateConcreteClassName
NoNaming == [left |-> SimpleExpr(<<>>), right |-> SimpleExpr(<<>>), leftName |-> <<>>,
             rightName |-> <<>>, returned |-> FALSE]

\* no call of FindGenericClassDefinitions
NoDefScan == [input |-> <<>>, defs |-> EmptyMap, err |-> NoError, returned |-> FALSE]

\* no parser in a scanning loop
NoLoop == [scanner |-> "none", input |-> <<>>, originalPos |-> 0, st |-> [pos |-> 0],
           returned |-> FALSE]

\* the command is not in watch mode
WatchOff ==
    /\ watchState = "off" /\ ctxDone = FALSE /\ debounceTimer = 0
    /\ timers = <<>> /\ event = [Name |-> <<>>, Op |-> {}]

\* the state NewTranspiler constructs
FreshTranspiler ==
    /\ templates = EmptyMap
    /\ templatePaths = EmptyMap
    /\ methodTemplates = EmptyMap
    /\ usages = EmptyMap
    /\ methodUsages = EmptyMap
    /\ instantiations = <<>>
    /\ instantiateSpec = EmptyMap
    /\ files = {}
    /\ results = EmptyBag
    /\ hasErrors = FALSE
    /\ phase = "new"

Init ==
    /\ FreshTranspiler /\ loopVarShared \in BOOLEAN
    /\ scan = NoScan /\ rtp = NoCall /\ naming = NoNaming /\ defScan = NoDefScan
    /\ loop = NoLoop /\ WatchOff

S_Integer == <<"I","n","t","e","g","e","r">>

S_String == <<"S","t","r","i","n","g">>

\* the forced instantiations a configuration may list
S_QueueString == <<"Q","u","e","u","e","<","S","t","r","i","n","g",">">>

S_MissingInteger == <<"M","i","s","s","i","n","g","<","I","n","t","e","g","e","r",">">>

S_DictStringQueueInteger == <<"D","i","c","t","<","S","t","r","i","n","g",","," ","Q","u","e","u","e","<","I","n","t","e","g","e","r",">",">">>

ForcedLists ==
    {<<S_QueueString>>, <<S_MissingInteger>>, <<S_QueueString, S_MissingInteger>>,
     <<S_DictStringQueueInteger>>}

SetInstantiations ==
    /\ phase = "new"
    /\ \E forced \in ForcedLists : instantiations' = forced
    /\ UNCHANGED <<templates, templatePaths, methodTemplates, usages, methodUsages,
                   instantiateSpec, files, results, hasErrors, phase, loopVarShared,
                   scan, rtp, naming, defScan, loop, watchVars>>

\* the method instantiations a configuration may list
S_UtilFirst == <<"U","t","i","l",".","f","i","r","s","t">>

S_UtilMissing == <<"U","t","i","l",".","m","i","s","s","i","n","g">>

S_StringInteger == <<"S","t","r","i","n","g",","," ","I","n","t","e","g","e","r">>

MethodSpecs ==
    {(S_UtilFirst :> <<S_String, S_StringInteger>>),
     (S_UtilMissing :> <<S_String>>)}

SetInstantiateSpec ==
    /\ phase = "new"
    /\ \E spec \in MethodSpecs : instantiateSpec' = spec
    /\ UNCHANGED <<templates, templatePaths, methodTemplates, usages, methodUsages,
                   instantiations, files, results, hasErrors, phase, loopVarShared,
                   scan, rtp, naming, defScan, loop, watchVars>>

\* the tables of the transpiler and the results of the call under way
Tables ==
    [templates |-> templates, templatePaths |-> templatePaths,
     methodTemplates |-> methodTemplates, usages |-> usages,
     methodUsages |-> methodUsages, results |-> EmptyBag, hasErrors |-> FALSE]

\* Phases 1 to 2 of TranspileFiles(batch): what they can leave behind
Discover(batch, st, forced, methods, sharedLoopVar) ==
    UNION {UNION {collectUsages(batch,
                      processMethodInstantiations(methods,
                          processInstantiations(forced, t11, sharedLoopVar)),
                      sharedLoopVar) :
                    t11 \in collectMethodTemplates(batch, t1)} :
             t1 \in collectTemplates(batch, st)}

\* TranspileFiles without the early return after the discovery phases
TranspileFilesOn_NoEarlyReturn(batch) ==
    \E t2 \in Discover(batch, Tables, instantiations, instantiateSpec, loopVarShared) :
      \E transpiled \in transpileAll(batch, t2, loopVarShared) :
        \E concrete \in generateConcreteClasses(t2, loopVarShared) :
          /\ templates' = t2.templates
          /\ templatePaths' = t2.templatePaths
          /\ methodTemplates' = t2.methodTemplates
          /\ usages' = t2.usages
          /\ methodUsages' = t2.methodUsages
          /\ files' = batch
          /\ hasErrors' = t2.hasErrors
          /\ results' = t2.results (+) transpiled (+) concrete
          /\ UNCHANGED <<instantiations, instantiateSpec, loopVarShared, scan, rtp,
                         naming, defScan, loop, watchVars>>

\* TranspileFiles(batch) on the transpiler in its current state
TranspileFilesOn(batch) ==
    \E t2 \in Discover(batch, Tables, instantiations, instantiateSpec, loopVarShared) :
      \E transpiled \in (IF t2.hasErrors THEN {EmptyBag}
                          ELSE transpileAll(batch, t2, loopVarShared)) :
        \E concrete \in (IF t2.hasErrors THEN {EmptyBag}
                         ELSE generateConcreteClasses(t2, loopVarShared)) :
          /\ templates' = t2.templates
          /\ templatePaths' = t2.templatePaths
          /\ methodTemplates' = t2.methodTemplates
          /\ usages' = t2.usages
          /\ methodUsages' = t2.methodUsages
          /\ files' = batch
          /\ hasErrors' = t2.hasErrors
          /\ results' = t2.results (+) transpiled (+) concrete
          /\ UNCHANGED <<instantiations, instantiateSpec, loopVarShared, scan, rtp,
                         naming, defScan, loop, watchVars>>

\* one compilation: TranspileFiles on a newly constructed transpiler
TranspileFiles ==
    /\ phase = "new"
    /\ \E batch \in Batches : TranspileFilesOn(batch)
    /\ phase' = "done"

\* the next compilation constructs its own transpiler
NewTranspiler ==
    /\ phase \in {"done", "reused"}
    /\ templates' = EmptyMap
    /\ templatePaths' = EmptyMap
    /\ methodTemplates' = EmptyMap
    /\ usages' = EmptyMap
    /\ methodUsages' = EmptyMap
    /\ instantiations' = <<>>
    /\ instantiateSpec' = EmptyMap
    /\ files' = {}
    /\ results' = EmptyBag
    /\ hasErrors' = FALSE
    /\ phase' = "new"
    /\ UNCHANGED <<loopVarShared, scan, rtp, naming, defScan, loop, watchVars>>

Next == SetInstantiations \/ SetInstantiateSpec \/ TranspileFiles \/ NewTranspiler

Spec == Init /\ [][Next]_vars

\* what TranspileFiles(batch) can return and leave behind when called on a
\* transpiler with the tables of st, the forced instantiations and the
\* method instantiations given, Phase 1 visiting the files in templateOrder,
\* Phase 1.1 in methodOrder and Phase 2 in usageOrder
TranspileFilesInOrder(batch, templateOrder, methodOrder, usageOrder, st, forced, methods, sharedLoopVar) ==
    Let(collectMethodTemplatesIn(methodOrder, collectTemplatesIn(templateOrder, st)),
        LAMBDA t11 :
    Let(processMethodInstantiations(methods,
            processInstantiations(forced, t11, sharedLoopVar)), LAMBDA t16 :
      UNION {Let(collectUsagesIn(usageOrder, found, t16), LAMBDA t2 :
               {[templates |-> t2.templates, templatePaths |-> t2.templatePaths,
                 methodTemplates |-> t2.methodTemplates, usages |-> t2.usages,
                 methodUsages |-> t2.methodUsages, hasErrors |-> t2.hasErrors,
                 results |-> t2.results (+) transpiled (+) concrete] :
                   transpiled \in (IF t2.hasErrors THEN {EmptyBag}
                                   ELSE transpileAll(batch, t2, sharedLoopVar)),
                   concrete \in (IF t2.hasErrors THEN {EmptyBag}
                                 ELSE generateConcreteClasses(t2, sharedLoopVar))}) :
             found \in ScanOutcomes(batch, sharedLoopVar)}))

\* the same over all the orders the phases can visit the files in
TranspileFilesOutcomes(batch, st, forced, methods, sharedLoopVar) ==
    UNION {TranspileFilesInOrder(batch, templateOrder, methodOrder, usageOrder, st,
                                 forced, methods, sharedLoopVar) :
             templateOrder \in Perms(batch), methodOrder \in Perms(batch),
             usageOrder \in Perms(batch)}

\* the tables of a transpiler NewTranspiler has just constructed
NewTables ==
    [templates |-> EmptyMap, templatePaths |-> EmptyMap, methodTemplates |-> EmptyMap,
     usages |-> EmptyMap, methodUsages |-> EmptyMap, results |-> EmptyBag,
     hasErrors |-> FALSE]

(***************************************************************************)
(* A transpiler that is called a second time                               *)
(***************************************************************************)

\* the most files given to each of the two calls
MaxReuseFiles == 1

ReuseBatches == {b \in SUBSET Corpus : b # {} /\ Cardinality(b) <= MaxReuseFiles}

\* the first TranspileFiles call on a newly constructed transpiler
TranspileFilesFirst ==
    /\ phase = "new"
    /\ \E batch \in ReuseBatches : TranspileFilesOn(batch)
    /\ phase' = "done"

\* TranspileFiles once more on the transpiler that has returned
TranspileFilesAgain ==
    /\ phase = "done"
    /\ \E batch \in ReuseBatches : TranspileFilesOn(batch)
    /\ phase' = "reused"

NextReuse ==
    \/ SetInstantiations \/ SetInstantiateSpec
    \/ TranspileFilesFirst \/ TranspileFilesAgain \/ NewTranspiler

SpecReuse == Init /\ [][NextReuse]_vars

(***************************************************************************)
(* Compilations of the further inputs                                      *)
(***************************************************************************)

\* the most files given to one TranspileFiles call
MaxFurtherFiles == 3

FurtherBatches ==
    {b \in SUBSET FurtherCorpus : b # {} /\ Cardinality(b) <= MaxFurtherFiles}

\* the method instantiations a configuration may list for them
S_BoxGet == <<"B","o","x",".","g","e","t">>

FurtherMethodSpecs ==
    {(S_UtilFirst :> <<S_String>>),
     (S_BoxGet :> <<S_String>>)}

SetFurtherInstantiateSpec ==
    /\ phase = "new"
    /\ \E spec \in FurtherMethodSpecs : instantiateSpec' = spec
    /\ UNCHANGED <<templates, templatePaths, methodTemplates, usages, methodUsages,
                   instantiations, files, results, hasErrors, phase, loopVarShared,
                   scan, rtp, naming, defScan, loop, watchVars>>

\* one compilation of further inputs on a newly constructed transpiler
TranspileFurtherFiles ==
    /\ phase = "new"
    /\ \E batch \in FurtherBatches : TranspileFilesOn(batch)
    /\ phase' = "done"

NextFurther ==
    \/ SetInstantiations \/ SetFurtherInstantiateSpec
    \/ TranspileFurtherFiles \/ NewTranspiler

SpecFurther == Init /\ [][NextFurther]_vars

(***************************************************************************)
(* Parser.FindGenerics on its own, one iteration of its loop at a time     *)
(***************************************************************************)

MaxScanLen == 4

ScanAlphabet == {"x", "<", ">", "=", " "}

S_IfLess == <<"i","f"," ","(","x"," ","<"," ","5",")">>

S_IfLessEqual == <<"i","f"," ","(","x"," ","<","="," ","5",")">>

S_SpacedUsage == <<"x","<"," ","x",">">>

S_SpacedNested == <<"x","<","x","<"," ","x",">",">">>

S_UsageAndComparison == <<"Q","u","e","u","e","<","I","n","t","e","g","e","r",">"," ","q",";"," ","i","f"," ","(","n"," ","<"," ","5",")"," ","{","}">>

S_RejectedThenUsage == <<"a","<","Q","u","e","u","e","<","I","n","t","e","g","e","r",">",";">>

S_SpaceThenUsage == <<"F","o","o","<"," ","x"," ","Q","u","e","u","e","<","I","n","t","e","g","e","r",">"," ","y">>

S_FooLess == <<"F","o","o","<">>

S_Unclosed == <<"x","<","x","<","x",">">>

S_SpacedLater == <<"x","<","x"," ","x","<","x"," ",">">>

S_NestedLater == <<"x","<","x","<","x",">",";","x","<","x","<","x"," ",">",">">>

ScanExamples == {S_IfLess, S_IfLessEqual, S_SpacedUsage, S_SpacedNested,
                 S_UsageAndComparison, S_RejectedThenUsage, S_SpaceThenUsage,
                 S_FooLess, S_Unclosed, S_SpacedLater, S_NestedLater}

ScanInputs == ScanExamples \cup UNION {[1..n -> ScanAlphabet] : n \in 0..MaxScanLen}

transpilerVars == <<templates, templatePaths, methodTemplates, usages, methodUsages,
                    instantiations, instantiateSpec, files, results, hasErrors, phase>>

\* NewParser(input)
InitScan ==
    /\ FreshTranspiler /\ loopVarShared \in BOOLEAN /\ rtp = NoCall
    /\ naming = NoNaming /\ defScan = NoDefScan
    /\ loop = NoLoop /\ WatchOff
    /\ \E input \in ScanInputs : scan = [input |-> input, pos |-> 0, generics |-> EmptyMap]

\* one iteration of the loop of FindGenerics
FindGenericsIteration ==
    /\ scan.pos < Len(scan.input)
    /\ \E st \in {FindGenericsStep(scan.input, [pos |-> scan.pos, generics |-> scan.generics],
                                    loopVarShared)} :
           scan' = [input |-> scan.input, pos |-> st.pos, generics |-> st.generics]
    /\ UNCHANGED <<transpilerVars, loopVarShared, rtp, naming, defScan, loop, watchVars>>

NextScan == FindGenericsIteration

SpecScan == InitScan /\ [][NextScan]_vars

(***************************************************************************)
(* replaceTypeParameter on its own                                         *)
(***************************************************************************)

MaxInputLen == 4

InputAlphabet == {"T", "a", "_", "1", "(", " "}

S_Tuple == <<"T","u","p","l","e">>

S_Testing == <<"T","e","s","t","i","n","g">>

S_T == <<"T">>

S_ParenT == <<"(","T",")">>

S_AngleT == <<"<","T",">">>

S_SemiT == <<"T",";">>

S_Mixed == <<"T"," ","t",";"," ","S","t","r","i","n","g"," ","s",";">>

S_Ta == <<"T", "a">>

S_IntegerMixed == <<"I","n","t","e","g","e","r"," ","t",";"," ","S","t","r","i","n","g"," ","s",";">>

S_QueueInteger == <<"Q","u","e","u","e","<","I","n","t","e","g","e","r",">">>

S_ListT == <<"L","i","s","t","<","T",">">>

ReplaceExamples == {S_String, S_Tuple, S_Testing, S_T, S_ParenT, S_AngleT, S_SemiT, S_Mixed}

ReplaceInputs == ReplaceExamples \cup UNION {[1..n -> InputAlphabet] : n \in 0..MaxInputLen}

\* the arguments of a call
InitRTP ==
    /\ FreshTranspiler /\ loopVarShared = FALSE /\ scan = NoScan
    /\ naming = NoNaming /\ defScan = NoDefScan
    /\ loop = NoLoop /\ WatchOff
    /\ \E input \in ReplaceInputs :
         \E param \in {S_T, S_Ta} :
           \E concreteType \in {S_Integer, S_ListT} :
             rtp = [input |-> input, param |-> param, concreteType |-> concreteType,
                    output |-> <<>>, returned |-> FALSE]

\* the call returns
ReplaceTypeParameter ==
    /\ ~rtp.returned
    /\ rtp' = [rtp EXCEPT !.output = replaceTypeParameter(rtp.input, rtp.param,
                                                          rtp.concreteType),
                          !.returned = TRUE]
    /\ UNCHANGED <<transpilerVars, loopVarShared, scan, naming, defScan, loop, watchVars>>

NextRTP == ReplaceTypeParameter

SpecRTP == InitRTP /\ [][NextRTP]_vars

(***************************************************************************)
(* GenerateConcreteClassName on its own                                    *)
(***************************************************************************)

MaxNameDepth == 2

S_Queue == <<"Q","u","e","u","e">>

NameIdentifiers == {S_Queue, S_Integer, S_QueueInteger}

RECURSIVE NameExprs(_)
\* the expressions of nesting depth at most depth: an identifier, or a base
\* with one argument of lesser depth or with two identifiers
NameExprs(depth) ==
    IF depth = 0 THEN {SimpleExpr(name) : name \in NameIdentifiers}
    ELSE NameExprs(depth - 1)
         \cup {GenericExprOf(base, <<arg>>) :
                  base \in NameIdentifiers, arg \in NameExprs(depth - 1)}
         \cup {GenericExprOf(base, <<SimpleExpr(first), SimpleExpr(second)>>) :
                  base \in NameIdentifiers, first \in NameIdentifiers,
                  second \in NameIdentifiers}

\* two generic expressions
InitName ==
    /\ FreshTranspiler /\ loopVarShared = FALSE
    /\ scan = NoScan /\ rtp = NoCall /\ defScan = NoDefScan
    /\ loop = NoLoop /\ WatchOff
    /\ \E left \in NameExprs(MaxNameDepth) \ NameExprs(0) :
         \E right \in NameExprs(MaxNameDepth) \ NameExprs(0) :
           naming = [left |-> left, right |-> right, leftName |-> <<>>,
                     rightName |-> <<>>, returned |-> FALSE]

\* both names are generated
GenerateNames ==
    /\ ~naming.returned
    /\ naming' = [naming EXCEPT !.leftName = GenerateConcreteClassName(naming.left),
                                !.rightName = GenerateConcreteClassName(naming.right),
                                !.returned = TRUE]
    /\ UNCHANGED <<transpilerVars, loopVarShared, scan, rtp, defScan, loop, watchVars>>

NextName == GenerateNames

SpecName == InitName /\ [][NextName]_vars

(***************************************************************************)
(* Parser.FindGenericClassDefinitions on its own                           *)
(***************************************************************************)

MaxModifiers == 3

SharingPrefixes == {S_with, S_without, S_inherited}

ModifierWords == {S_public, S_sharing} \cup SharingPrefixes

ModifierRuns == UNION {[1..n -> ModifierWords] : n \in 0..MaxModifiers}

S_FooDeclaration == <<"c","l","a","s","s"," ","F","o","o","<","T",">"," ","{","}">>

S_BarDeclaration == <<"c","l","a","s","s"," ","B","a","r","<","U",">"," ","{","}">>

S_Foo == <<"F","o","o">>

S_Bar == <<"B","a","r">>

RECURSIVE WordsThenSpace(_)
\* the words of run, each followed by a space
WordsThenSpace(run) ==
    IF run = <<>> THEN <<>> ELSE Head(run) \o <<" ">> \o WordsThenSpace(Tail(run))

\* a declaration of Foo<T> behind the modifier run, then tail
SharingInput(run, tail) == WordsThenSpace(run) \o S_FooDeclaration \o tail

SharingInputs ==
    {SharingInput(run, tail) : run \in ModifierRuns,
                               tail \in {<<>>, <<" ">> \o S_BarDeclaration}}

\* parameter lists the parser must refuse: a long parameter, a digit, a
\* duplicate, '<<' and '>>'
MalformedLists == {<<"<","T","T",">">>, <<"<","1",">">>, <<"<","T",","," ","T",">">>, <<"<","<","T",">",">">>, <<"<","T",">",">">>}

WellFormedLists == {<<"<","T",">">>, <<"<","T",","," ","U",">">>}

S_classBar == <<"c","l","a","s","s"," ","B","a","r">>

\* what stands before the declaration of Bar
DeclarationPrefixes ==
    {<<>>, <<"p","u","b","l","i","c"," ">>, <<"c","l","a","s","s"," ","O","k","<","V",">"," ","{","}"," ">>, <<"c","l","a","s","s"," ","O","k","<","V",">"," ","{"," ","}"," ","/","/"," ","x","\n">>, <<"c","l","a","s","s"," ","O","k","<","V",">"," ","{"," ">>, <<"c","l","a","s","s"," ","O","k","<","V",">"," ">>, <<"s","h","a","r","i","n","g"," ">>, <<"w","i","t","h"," ">>, <<"/","/"," ">>}

MalformedInput(prefix, list) == prefix \o S_classBar \o list \o <<" ", "{", "}">>

DeclarationInputs ==
    {MalformedInput(prefix, list) : prefix \in DeclarationPrefixes,
                                    list \in MalformedLists \cup WellFormedLists}

\* NewParser(input)
InitDefs ==
    /\ FreshTranspiler /\ loopVarShared = FALSE
    /\ scan = NoScan /\ rtp = NoCall /\ naming = NoNaming
    /\ loop = NoLoop /\ WatchOff
    /\ \E input \in SharingInputs \cup DeclarationInputs :
         defScan = [input |-> input, defs |-> EmptyMap, err |-> NoError, returned |-> FALSE]

\* the call returns its definitions or its error
FindDefinitions ==
    /\ ~defScan.returned
    /\ \E found \in {FindGenericClassDefinitions(defScan.input)} :
         defScan' = [input |-> defScan.input, defs |-> found.defs, err |-> found.err,
                     returned |-> TRUE]
    /\ UNCHANGED <<transpilerVars, loopVarShared, scan, rtp, naming, loop, watchVars>>

NextDefs == FindDefinitions

SpecDefs == InitDefs /\ [][NextDefs]_vars

(***************************************************************************)
(* The three scanning loops of the Parser, one iteration at a time         *)
(***************************************************************************)

Scanners == {"FindGenerics", "FindGenericClassDefinitions", "FindGenericMethodDefinitions"}

\* the longest input made of the characters of LoopAlphabet
MaxLoopLen == 3

\* the largest cursor position the caller may have left in the Parser
MaxStart == 2

LoopAlphabet == {"/", "*", "<", "{", "x"}

S_OpenComment == <<"/","*"," ","Q","u","e","u","e","<","T",">">>

S_OpenAngles == <<"a","<","b","<","c">>

S_OpenBraces == <<"c","l","a","s","s"," ","F","o","o","<","T",">"," ","{"," ","{">>

S_OpenParameters == <<"c","l","a","s","s"," ","F","o","o","<","T">>

S_ExtraBrace == <<"w","i","t","h"," ","s","h","a","r","i","n","g"," ","c","l","a","s","s"," ","F","o","o","<","T",">"," ","{","}"," ","}">>

S_CommentedClass == <<"/","*"," ","c","l","a","s","s"," ","F","o","o","<","T",">"," ","{","}">>

S_OpenParen == <<"p","u","b","l","i","c"," ","<","T",">"," ","T"," ","g","e","t","(","T"," ","a"," ","{">>

S_NoMethod == <<"p","u","b","l","i","c"," ","<","T",">"," ",";"," ">>

S_OpenReturnType == <<"p","u","b","l","i","c"," ","<","T",">"," ","M","a","p","<","S","t","r","i","n","g",","," ","T"," ","g","e","t","(",")"," ","{"," ","{">>

S_MethodThenComment == <<"s","t","a","t","i","c"," ","<","T",">"," ","v","o","i","d"," ","f","(",")"," ","{","}"," ","/","*">>

S_PublicLess == <<"p","u","b","l","i","c"," ","<">>

LoopExamples ==
    {S_OpenComment, S_FooLess, S_OpenAngles, S_OpenBraces, S_OpenParameters,
     S_ExtraBrace, S_CommentedClass, S_OpenParen, S_NoMethod, S_OpenReturnType,
     S_MethodThenComment, S_PublicLess, S_BarDeclaration, QueuePeak.Content,
     UtilPeak.Content}

LoopInputs == LoopExamples \cup UNION {[1..n -> LoopAlphabet] : n \in 0..MaxLoopLen}

\* the scanner is entered on a Parser whose cursor the caller left at
\* originalPos: FindGenerics scans from there, the other two from 0
EnterLoop(scanner, input, originalPos) ==
    [scanner |-> scanner, input |-> input, originalPos |-> originalPos,
     st |-> CASE scanner = "FindGenerics" ->
                   [pos |-> originalPos, generics |-> EmptyMap]
              [] scanner = "FindGenericClassDefinitions" ->
                   [pos |-> 0, prevIdentifier |-> <<>>, modifierStart |-> -1,
                    definitions |-> EmptyMap, err |-> NoError]
              [] scanner = "FindGenericMethodDefinitions" ->
                   [pos |-> 0, definitions |-> EmptyMap],
     returned |-> FALSE]

\* the condition of the loop of the scanner; parseTypeParameters failing
\* makes FindGenericClassDefinitions return from inside its loop
LoopRuns ==
    /\ loop.st.pos < Len(loop.input)
    /\ loop.scanner = "FindGenericClassDefinitions" => loop.st.err = NoError

\* the scanner that restores the cursor leaves it where the caller had it
RestoreCursor_Kept(scanner, st, originalPos) == st

\* p.pos = originalPos before both returns of the two definition scanners;
\* FindGenerics leaves the cursor where its loop ended
RestoreCursor(scanner, st, originalPos) ==
    IF scanner = "FindGenerics" THEN st ELSE [st EXCEPT !.pos = originalPos]

InitLoops ==
    /\ FreshTranspiler /\ loopVarShared \in BOOLEAN
    /\ scan = NoScan /\ rtp = NoCall /\ naming = NoNaming /\ defScan = NoDefScan
    /\ WatchOff
    /\ \E scanner \in Scanners, input \in LoopInputs :
         \E originalPos \in 0..(IF Len(input) < MaxStart THEN Len(input) ELSE MaxStart) :
           loop = EnterLoop(scanner, input, originalPos)

FindGenericsLoopIteration ==
    /\ loop.scanner = "FindGenerics" /\ ~loop.returned /\ LoopRuns
    /\ \E st \in {FindGenericsStep(loop.input, loop.st, loopVarShared)} :
         loop' = [loop EXCEPT !.st = st]
    /\ UNCHANGED <<transpilerVars, loopVarShared, scan, rtp, naming, defScan, watchVars>>

FindGenericClassDefinitionsIteration ==
    /\ loop.scanner = "FindGenericClassDefinitions" /\ ~loop.returned /\ LoopRuns
    /\ \E st \in {FindGenericClassDefinitionsStep(loop.input, loop.st)} :
         loop' = [loop EXCEPT !.st = st]
    /\ UNCHANGED <<transpilerVars, loopVarShared, scan, rtp, naming, defScan, watchVars>>

FindGenericMethodDefinitionsIteration ==
    /\ loop.scanner = "FindGenericMethodDefinitions" /\ ~loop.returned /\ LoopRuns
    /\ \E st \in {FindGenericMethodDefinitionsStep(loop.input, S_Foo, loop.st)} :
         loop' = [loop EXCEPT !.st = st]
    /\ UNCHANGED <<transpilerVars, loopVarShared, scan, rtp, naming, defScan, watchVars>>

\* the loop has ended: the scanner returns
ScannerReturns ==
    /\ loop.scanner \in Scanners /\ ~loop.returned /\ ~LoopRuns
    /\ loop' = [loop EXCEPT !.returned = TRUE,
                            !.st = RestoreCursor(loop.scanner, loop.st, loop.originalPos)]
    /\ UNCHANGED <<transpilerVars, loopVarShared, scan, rtp, naming, defScan, watchVars>>

NextLoops ==
    \/ FindGenericsLoopIteration \/ FindGenericClassDefinitionsIteration
    \/ FindGenericMethodDefinitionsIteration \/ ScannerReturns

SpecLoops == InitLoops /\ [][NextLoops]_vars

\* a scanner that has been called runs: its code is sequential
SpecLoopsFair == SpecLoops /\ WF_vars(NextLoops)

(***************************************************************************)
(* Watch mode (cmd/peak: runWatch, watchLoop, handleFileEvent)             *)
(***************************************************************************)

\* the most timers time.AfterFunc creates in one run of the command
MaxTimers == 3

\* a timer of time.AfterFunc with its callback: "pending" until it fires or
\* is stopped; "fired" once the runtime has started the callback; then
\* "compiling" while the callback is in compileDirectory and "done" after
\* it, or "returned" when the callback found the context cancelled
TimerStates == {"pending", "stopped", "fired", "compiling", "done", "returned"}

\* the events the watcher delivers: a file name and the operations of Op
EventNames == {QueuePeak.Path, <<"Q","u","e","u","e",".","c","l","s">>}

EventOps == {{"Write"}, {"Create"}, {"Remove"}, {"Rename"}, {"Chmod"}, {"Write", "Chmod"}}

\* Timer.Stop: a timer that has not fired will not fire; one that has is
\* left alone, and so is its callback
Stop(all, timer) ==
    IF all[timer] = "pending" THEN [all EXCEPT ![timer] = "stopped"] ELSE all

\* handleFileEvent without debounceTimer.Stop()
handleFileEvent_NoStop(ev, timer, all) ==
    IF ~(Len(ev.Name) >= Len(S_peak)
         /\ Slice(ev.Name, Len(ev.Name) - Len(S_peak), Len(ev.Name)) = S_peak)
    THEN [debounceTimer |-> timer, timers |-> all]
    ELSE IF "Write" \notin ev.Op /\ "Create" \notin ev.Op
    THEN [debounceTimer |-> timer, timers |-> all]
    ELSE [debounceTimer |-> Len(all) + 1,
          timers |-> Append(all, "pending")]

\* handleFileEvent: the timer it returns and the timers of the runtime
handleFileEvent(ev, timer, all) ==
    IF ~(Len(ev.Name) >= Len(S_peak)
         /\ Slice(ev.Name, Len(ev.Name) - Len(S_peak), Len(ev.Name)) = S_peak)
    THEN [debounceTimer |-> timer, timers |-> all]
    ELSE IF "Write" \notin ev.Op /\ "Create" \notin ev.Op
    THEN [debounceTimer |-> timer, timers |-> all]
    ELSE [debounceTimer |-> Len(all) + 1,
          timers |-> Append(IF timer # 0 THEN Stop(all, timer) ELSE all, "pending")]

\* peak watch: validateDirectory returns an error, or the directory exists
\* and the initial compilation begins
RunWatch ==
    /\ watchState = "off"
    /\ \E exists \in BOOLEAN : watchState' = IF exists THEN "initial" ELSE "returned"
    /\ UNCHANGED <<transpilerVars, loopVarShared, scan, rtp, naming, defScan, loop,
                   ctxDone, debounceTimer, timers, event>>

\* the initial compilation has ended, with or without an error; setupWatcher
\* gives the watcher and the context, or runWatch returns its error
SetupWatcher ==
    /\ watchState = "initial"
    /\ \E ok \in BOOLEAN : watchState' = IF ok THEN "watching" ELSE "returned"
    /\ UNCHANGED <<transpilerVars, loopVarShared, scan, rtp, naming, defScan, loop,
                   ctxDone, debounceTimer, timers, event>>

\* watchLoop receives an event; select may take this case while the context
\* is cancelled too
ReceiveEvent ==
    /\ watchState = "watching"
    /\ Len(timers) < MaxTimers
    /\ \E name \in EventNames, op \in EventOps :
         /\ event' = [Name |-> name, Op |-> op]
         /\ \E r \in {handleFileEvent([Name |-> name, Op |-> op], debounceTimer, timers)} :
              /\ debounceTimer' = r.debounceTimer
              /\ timers' = r.timers
    /\ UNCHANGED <<transpilerVars, loopVarShared, scan, rtp, naming, defScan, loop,
                   watchState, ctxDone>>

\* SIGINT or SIGTERM: the signal goroutine cancels the context
Interrupt ==
    /\ watchState = "watching" /\ ~ctxDone
    /\ ctxDone' = TRUE
    /\ UNCHANGED <<transpilerVars, loopVarShared, scan, rtp, naming, defScan, loop,
                   watchState, debounceTimer, timers, event>>

\* watchLoop takes the case ctx.Done: it stops the timer and returns, and
\* the command exits
WatchLoopReturns ==
    /\ watchState = "watching" /\ ctxDone
    /\ timers' = IF debounceTimer # 0 THEN Stop(timers, debounceTimer) ELSE timers
    /\ watchState' = "returned"
    /\ UNCHANGED <<transpilerVars, loopVarShared, scan, rtp, naming, defScan, loop,
                   ctxDone, debounceTimer, event>>

\* the debounce duration of a timer has passed: the runtime starts its
\* callback in a goroutine of its own
TimerFires ==
    /\ watchState = "watching"
    /\ \E timer \in 1..Len(timers) :
         /\ timers[timer] = "pending"
         /\ timers' = [timers EXCEPT ![timer] = "fired"]
    /\ UNCHANGED <<transpilerVars, loopVarShared, scan, rtp, naming, defScan, loop,
                   watchState, ctxDone, debounceTimer, event>>

\* the callback runs its select: it returns when the context is cancelled
\* and enters compileDirectory otherwise
CallbackRuns ==
    /\ watchState = "watching"
    /\ \E timer \in 1..Len(timers) :
         /\ timers[timer] = "fired"
         /\ timers' = [timers EXCEPT ![timer] = IF ctxDone THEN "returned" ELSE "compiling"]
    /\ UNCHANGED <<transpilerVars, loopVarShared, scan, rtp, naming, defScan, loop,
                   watchState, ctxDone, debounceTimer, event>>

\* compileDirectory returns in a callback
CompilationEnds ==
    /\ watchState = "watching"
    /\ \E timer \in 1..Len(timers) :
         /\ timers[timer] = "compiling"
         /\ timers' = [timers EXCEPT ![timer] = "done"]
    /\ UNCHANGED <<transpilerVars, loopVarShared, scan, rtp, naming, defScan, loop,
                   watchState, ctxDone, debounceTimer, event>>

InitWatch ==
    /\ FreshTranspiler /\ loopVarShared = FALSE
    /\ scan = NoScan /\ rtp = NoCall /\ naming = NoNaming /\ defScan = NoDefScan
    /\ loop = NoLoop /\ WatchOff

NextWatch ==
    \/ RunWatch \/ SetupWatcher \/ ReceiveEvent \/ Interrupt \/ WatchLoopReturns
    \/ TimerFires \/ CallbackRuns \/ CompilationEnds

SpecWatch == InitWatch /\ [][NextWatch]_vars

\* the runtime fires a timer whose duration has passed and runs the
\* goroutine of its callback, and compileDirectory returns
SpecWatchFair ==
    SpecWatch /\ WF_vars(TimerFires) /\ WF_vars(CallbackRuns) /\ WF_vars(CompilationEnds)

(***************************************************************************)
(* Properties of a run                                                     *)
(***************************************************************************)

Returned == BagToSet(results)

IsErrorEntry(r) ==
    r.Error # NoError /\ r.OutputPath = <<>> /\ r.Content = <<>> /\ ~r.IsTemplate

WellFormed(file) == ClassDefinitionsOf[file].err = NoError

C2_OthersCompiled ==
    phase = "done" =>
        \A file \in files :
            WellFormed(file) =>
                \E r \in Returned :
                    /\ r.OriginalPath = file.Path
                    /\ r.Error = NoError
                    /\ (r.IsTemplate \/ r.OutputPath # <<>>)

\* the output path generateConcreteClasses gives the concrete class of expr
ConcretePath(expr) ==
    outputPathFn(PathJoin(Dir(templatePaths[expr.BaseType]),
                          GenerateConcreteClassName(expr) \o S_peak))

\* the template usages in the body of the template of usage expr once its
\* parameters are substituted by the arguments of expr
TransitiveUsages(expr) ==
    LET template == templates[expr.BaseType]
        body == SubstituteInOrder(template.Body, template, expr,
                                  [i \in 1..Len(template.TypeParams) |-> i])
        generics == FindGenerics(body, loopVarShared)
    IN {generics[k] : k \in {x \in DOMAIN generics :
                                generics[x].BaseType \in DOMAIN templates}}

IsInstantiable(expr) ==
    /\ expr.BaseType \in DOMAIN templates
    /\ Len(expr.TypeArgs) = Len(templates[expr.BaseType].TypeParams)

\* C3: transitivity: for every usage of a template found in a source file,
\* the run emits the concrete class of each template usage that the body of
\* the template contains once the arguments are substituted (Dict<String,
\* Integer> emits QueueString when the body of Dict uses Queue<K>).
C3_Transitivity ==
    (phase = "done" /\ ~hasErrors) =>
        \A file \in files :
            \A k \in DOMAIN GenericsOf[file][loopVarShared] :
                LET expr == GenericsOf[file][loopVarShared][k]
                IN (ClassDefinitionsOf[file].defs = EmptyMap /\ IsInstantiable(expr)) =>
                       \A dep \in TransitiveUsages(expr) :
                           \E r \in Returned : r.OutputPath = ConcretePath(dep)

SourceFiles == {file \in files : WellFormed(file) /\ DOMAIN ClassDefinitionsOf[file].defs = {}}

\* what FindGenerics returned for the whole content of file in this run
FileGenerics(file) == GenericsOf[file][loopVarShared]

Range(seq) == {seq[i] : i \in 1..Len(seq)}

RECURSIVE NestedCustom(_)
\* the generic type arguments of expr, at any depth, that are not built-in
NestedCustom(expr) ==
    UNION {(IF ~a.IsSimple /\ ~isBuiltInGeneric(a.BaseType) THEN {a} ELSE {})
               \cup NestedCustom(a) : a \in Range(expr.TypeArgs)}

StripSpaces(s) == SelectSeq(s, LAMBDA c : ~IsSpace(c))

\* C4: the map FindGenerics returns for a source file maps the text of each
\* usage to its parsed expression and holds, for every non-built-in generic
\* type argument at any depth and any position, an entry from the canonical
\* rendering of the argument to the argument itself; in a successful run each
\* such argument whose base is a template has its own concrete class result.
C4_NestedCollected ==
    (phase = "done" /\ ~hasErrors) =>
        \A file \in SourceFiles :
            \A k \in DOMAIN FileGenerics(file) :
                /\ StripSpaces(String(FileGenerics(file)[k])) = StripSpaces(k)
                /\ \A a \in NestedCustom(FileGenerics(file)[k]) :
                       /\ String(a) \in DOMAIN FileGenerics(file)
                       /\ FileGenerics(file)[String(a)] = a
                       /\ a.BaseType \in DOMAIN templates =>
                              \E r \in Returned : r.OutputPath = ConcretePath(a)

ListOf(x) == S_List \o <<"<">> \o x \o <<">">>

Bare(x) == <<" ">> \o x \o <<" ">>

\* usage expr gives parameter i of its template an argument rooted at a
\* built-in generic
HasBuiltInArg(expr, i) ==
    /\ IsInstantiable(expr)
    /\ i \in 1..Len(expr.TypeArgs)
    /\ ~expr.TypeArgs[i].IsSimple
    /\ isBuiltInGeneric(expr.TypeArgs[i].BaseType)

\* content holds the canonical rendering of arg, and not its mangled name,
\* in the place where body holds param
Preserved(body, content, param, arg, In(_)) ==
    Contains(body, In(param)) =>
        /\ Contains(content, In(String(arg)))
        /\ ~Contains(content, In(GenerateConcreteClassName(arg)))

\* C5: nested preservation: in the concrete class of a usage whose argument
\* is a built-in generic (List<Integer>, Map<String, Integer>), List<T> of
\* the template body has become List<List<Integer>> and a bare T has become
\* Map<String, Integer>; the mangled names ListInteger and MapStringInteger
\* do not appear there.
C5_NestedPreserved ==
    (phase = "done" /\ ~hasErrors) =>
        \A k \in DOMAIN usages :
            \A i \in 1..Len(usages[k].TypeArgs) :
                HasBuiltInArg(usages[k], i) =>
                    /\ \E r \in Returned : r.OutputPath = ConcretePath(usages[k])
                    /\ \A r \in Returned :
                           r.OutputPath = ConcretePath(usages[k]) =>
                               LET template == templates[usages[k].BaseType]
                               IN /\ Preserved(template.Body, r.Content,
                                               template.TypeParams[i],
                                               usages[k].TypeArgs[i], ListOf)
                                  /\ Preserved(template.Body, r.Content,
                                               template.TypeParams[i],
                                               usages[k].TypeArgs[i], Bare)

\* a run that instantiated a template whose body holds List<T> with an
\* argument rooted at a built-in generic, and one whose body holds a bare T
C5_Witness ==
    /\ phase = "done" /\ ~hasErrors
    /\ \A In \in {"list", "bare"} :
         \E k \in DOMAIN usages :
           \E i \in 1..Len(usages[k].TypeArgs) :
             /\ HasBuiltInArg(usages[k], i)
             /\ LET body == templates[usages[k].BaseType].Body
                    param == templates[usages[k].BaseType].TypeParams[i]
                IN IF In = "list" THEN Contains(body, ListOf(param))
                   ELSE Contains(body, Bare(param))
             /\ \E r \in Returned : r.OutputPath = ConcretePath(usages[k])

\* the offsets of content where text occurs outside any other angle bracket
TopLevelOccurrences(content, text) ==
    {p \in 0..Len(content) :
        /\ MatchAt(content, p, text)
        /\ Cardinality({q \in 0..(p - 1) : At(content, q) = "<"})
               = Cardinality({q \in 0..(p - 1) : At(content, q) = ">"})}

\* C6: a usage of a template nested in a built-in generic is converted and
\* the wrapper kept: where List<Queue<Integer>> (or Set) occurs in a source
\* file, or in a template body once the parameter is substituted, the output
\* holds List<QueueInteger> and QueueInteger is generated.
C6_WrappedConverted ==
    (phase = "done" /\ ~hasErrors) =>
        \A wrapper \in {S_List, S_Set} :
          \A name \in DOMAIN templates :
            /\ \A arg \in {S_Integer, S_String} :
                 LET inner == GenericExprOf(name, <<SimpleExpr(arg)>>)
                     text == wrapper \o <<"<">> \o String(inner) \o <<">">>
                     converted == wrapper \o <<"<">> \o GenerateConcreteClassName(inner)
                                          \o <<">">>
                 IN \A file \in SourceFiles :
                        (IsInstantiable(inner)
                            /\ TopLevelOccurrences(file.Content, text) # {}) =>
                            /\ \E r \in Returned :
                                   r.OriginalPath = file.Path /\ Contains(r.Content, converted)
                            /\ \E r \in Returned : r.OutputPath = ConcretePath(inner)
            /\ \A k \in DOMAIN usages :
                 LET expr == usages[k]
                     inner == GenericExprOf(name, expr.TypeArgs)
                     owner == templates[expr.BaseType]
                     text == wrapper \o <<"<">> \o name \o <<"<">>
                                     \o Join(owner.TypeParams, <<",", " ">>) \o <<">", ">">>
                     converted == wrapper \o <<"<">> \o GenerateConcreteClassName(inner)
                                          \o <<">">>
                 IN (IsInstantiable(expr) /\ IsInstantiable(inner)
                        /\ Contains(owner.Body, text)) =>
                        /\ \A r \in Returned :
                               r.OutputPath = ConcretePath(expr) =>
                                   Contains(r.Content, converted)
                        /\ \E r \in Returned : r.OutputPath = ConcretePath(inner)

\* the comments of s: from // to the end of the line, from /* to the next */
Comments(s) ==
    {Slice(s, p, LineEnd(s, p + 2)) : p \in {q \in 0..Len(s) : MatchAt(s, q, <<"/", "/">>)}}
    \cup
    {Slice(s, p, BlockEnd(s, p + 2)) : p \in {q \in 0..Len(s) : MatchAt(s, q, <<"/", "*">>)}}

\* offset p of s lies in a comment
InComment(s, p) ==
    \/ \E q \in 0..p : MatchAt(s, q, <<"/", "/">>) /\ p < LineEnd(s, q + 2)
    \/ \E q \in 0..p : MatchAt(s, q, <<"/", "*">>) /\ p < BlockEnd(s, q + 2)

\* C8: comment immunity: a usage FindGenerics collects from a source file
\* has its text outside the comments of the file, and every comment that
\* holds a generic-looking pattern, in a source file or in a template body,
\* is found unchanged in the output made from it (the transpiled file, each
\* concrete class of the template).
C8_CommentImmunity ==
    (phase = "done" /\ ~hasErrors) =>
        /\ \A file \in SourceFiles :
             /\ \A k \in DOMAIN FileGenerics(file) :
                    Contains(file.Content, k) =>
                        \E p \in 0..Len(file.Content) :
                            MatchAt(file.Content, p, k) /\ ~InComment(file.Content, p)
             /\ \A c \in {d \in Comments(file.Content) : Contains(d, <<"<">>)} :
                    \E r \in Returned : r.OriginalPath = file.Path /\ Contains(r.Content, c)
        /\ \A k \in DOMAIN usages :
             IsInstantiable(usages[k]) =>
                 \A c \in {d \in Comments(templates[usages[k].BaseType].Body) :
                                Contains(d, <<"<">>)} :
                     \A r \in Returned :
                         r.OutputPath = ConcretePath(usages[k]) => Contains(r.Content, c)

\* the identifier that ends right before offset p of s, spaces skipped
WordBefore(s, p) ==
    LET e == CHOOSE q \in 0..p : (\A r \in q..(p - 1) : IsSpace(At(s, r)))
                                 /\ (q = 0 \/ ~IsSpace(At(s, q - 1)))
        b == CHOOSE q \in 0..e : (\A r \in q..(e - 1) : isIdentifierChar(At(s, r)))
                                 /\ (q = 0 \/ ~isIdentifierChar(At(s, q - 1)))
    IN Slice(s, b, e)

\* every '<' of s follows List, Set or Map, or is a comparison
BuiltInOnly(s) ==
    \A p \in 0..(Len(s) - 1) :
        At(s, p) = "<" =>
            \/ WordBefore(s, p) \in {S_List, S_Set, S_Map}
            \/ At(s, p + 1) = "=" \/ IsSpace(At(s, p + 1))
            \/ InComment(s, p)

\* the batch defines no template and all its generic usages are rooted at
\* List, Set or Map
BuiltInBatch ==
    /\ files # {} /\ instantiations = <<>> /\ instantiateSpec = EmptyMap
    /\ \A file \in files :
           /\ file \in SourceFiles
           /\ BuiltInOnly(file.Content)

\* C10: built-in preservation: for a batch that defines no template and
\* whose generic usages are all rooted at List, Set or Map, FindGenerics
\* returns the empty map for every file, the usage table stays empty, no
\* concrete class is returned and the content of every file is unchanged.
C10_BuiltInPreserved ==
    (phase = "done" /\ BuiltInBatch) =>
        /\ ~hasErrors
        /\ usages = EmptyMap
        /\ \A file \in files : DOMAIN FileGenerics(file) = {}
        /\ \A r \in Returned : r.OriginalPath # <<>>
        /\ \A file \in files :
               \E r \in Returned :
                   /\ r.OriginalPath = file.Path /\ r.Content = file.Content
                   /\ \A r2 \in Returned : r2.OriginalPath = file.Path => r2 = r

\* such a batch with a List usage and one with a nested Set usage
C10_Witness ==
    /\ phase = "done" /\ BuiltInBatch
    /\ \E file \in files : Contains(file.Content, S_List \o <<"<">>)
    /\ \E file \in files : Contains(file.Content, <<" ">> \o S_Set \o <<"<">>)
    /\ Cardinality(files) > 1

\* param stands at offset i of input as a word of its own: the characters
\* before and after it are not identifier characters, or are the ends
StandsAlone(input, param, i) ==
    /\ i + Len(param) <= Len(input)
    /\ \A k \in 1..Len(param) : input[i + k] = param[k]
    /\ (i = 0 \/ ~isIdentifierChar(input[i]))
    /\ (i + Len(param) = Len(input) \/ ~isIdentifierChar(input[i + Len(param) + 1]))

\* what the byte at offset i of input becomes
ExpectedPiece(input, param, concreteType, i) ==
    IF StandsAlone(input, param, i) THEN concreteType
    ELSE IF \E j \in 0..(i - 1) : StandsAlone(input, param, j) /\ i < j + Len(param)
         THEN <<>>
         ELSE <<input[i + 1]>>

RECURSIVE ExpectedFrom(_, _, _, _)
ExpectedFrom(input, param, concreteType, i) ==
    IF i >= Len(input) THEN <<>>
    ELSE ExpectedPiece(input, param, concreteType, i)
         \o ExpectedFrom(input, param, concreteType, i + 1)

\* C7: word boundaries: replaceTypeParameter(input, param, concrete)
\* replaces exactly the occurrences of param that stand alone and copies
\* every other byte; with param T it returns String, Tuple and Testing as
\* they are and rewrites T, (T), <T> and T; .
C7_WordBoundary ==
    rtp.returned =>
        /\ rtp.output = ExpectedFrom(rtp.input, rtp.param, rtp.concreteType, 0)
        /\ (rtp.param = S_T /\ rtp.input \in {S_String, S_Tuple, S_Testing}) =>
               rtp.output = rtp.input
        /\ rtp.param = S_T =>
               /\ rtp.input = S_T => rtp.output = rtp.concreteType
               /\ rtp.input = S_ParenT => rtp.output = <<"(">> \o rtp.concreteType \o <<")">>
               /\ rtp.input = S_AngleT => rtp.output = <<"<">> \o rtp.concreteType \o <<">">>
               /\ rtp.input = S_SemiT => rtp.output = rtp.concreteType \o <<";">>

\* T replaced where it is a word, kept inside String
C7_Witness ==
    /\ rtp.returned /\ rtp.input = S_Mixed /\ rtp.param = S_T
    /\ rtp.concreteType = S_Integer
    /\ rtp.output = S_IntegerMixed

\* the scan stands before an identifier whose '<', at offset lt, is followed
\* by '=' or by whitespace
ComparisonAhead(lt) ==
    /\ scan.pos < Len(scan.input)
    /\ \E start \in scan.pos..lt :
         /\ \A q \in scan.pos..(start - 1) : IsSpace(At(scan.input, q))
         /\ IsLetter(At(scan.input, start)) \/ At(scan.input, start) = "_"
         /\ \E e \in start..lt :
              /\ \A q \in start..(e - 1) : isIdentifierChar(At(scan.input, q))
              /\ \A q \in e..(lt - 1) : IsSpace(At(scan.input, q))
              /\ e < lt => ~isIdentifierChar(At(scan.input, e))
    /\ At(scan.input, lt) = "<"
    /\ At(scan.input, lt + 1) = "=" \/ IsSpace(At(scan.input, lt + 1))

\* every '<' of s is followed by '=' or by whitespace
OnlyComparisons(s) ==
    \A q \in 0..(Len(s) - 1) :
        At(s, q) = "<" => (At(s, q + 1) = "=" \/ IsSpace(At(s, q + 1)))

ScanFinished == scan.input # <<>> /\ scan.pos >= Len(scan.input)

\* C9: comparison disambiguation: when the '<' after the identifier the
\* scan stands at is followed by '=' or whitespace, the iteration starts no
\* generic parse: it stops at the '<' and records nothing; so if (x < 5),
\* if (x <= 5) and every input whose '<' are all followed by '=' or
\* whitespace end with no usage.
C9_Comparison ==
    /\ \A lt \in 0..(Len(scan.input) - 1) :
           ComparisonAhead(lt) =>
               FindGenericsStep(scan.input, [pos |-> scan.pos, generics |-> scan.generics],
                                loopVarShared)
                   = [pos |-> lt, generics |-> scan.generics]
    /\ (ScanFinished /\ OnlyComparisons(scan.input)) => scan.generics = EmptyMap
    /\ (ScanFinished /\ scan.input \in {S_IfLess, S_IfLessEqual}) => scan.generics = EmptyMap

\* a scan that took the usage and left the comparison
C9_Witness ==
    /\ ScanFinished /\ scan.input = S_UsageAndComparison
    /\ DOMAIN scan.generics = {S_QueueInteger}

\* C11: name generation avoids conflicts: two generic expressions that
\* differ in a base name or in a type argument at any depth never get the
\* same concrete class name.
C11_NoCollision ==
    (naming.returned /\ naming.left # naming.right) => naming.leftName # naming.rightName

\* the keyword class stands at offset p of s as a word, outside comments,
\* followed by a name and by the parameter list text
DeclaresWith(s, p, list) ==
    /\ MatchAt(s, p, S_class)
    /\ (p = 0 \/ ~isIdentifierChar(At(s, p - 1)))
    /\ ~InComment(s, p)
    /\ \E b \in (p + 6)..Len(s) :
         \E e \in (b + 1)..Len(s) :
           /\ \A q \in (p + 5)..(b - 1) : At(s, q) = " "
           /\ \A q \in b..(e - 1) : isIdentifierChar(At(s, q))
           /\ MatchAt(s, e, list)

\* s holds a declaration with one of the malformed parameter lists
HasMalformedDeclaration(s) ==
    \E p \in 0..Len(s) : \E list \in MalformedLists : DeclaresWith(s, p, list)

\* C15: FindGenericClassDefinitions aborts on a malformed declaration: an
\* input with, outside comments, a class Name<...> whose list has a long
\* parameter, a non-letter, a duplicate, '<<' or '>>' gives a positioned
\* ParseError and no definition; any other input gives definitions whose
\* parameters are distinct single letters.
C15_MalformedAborts ==
    defScan.returned =>
        IF HasMalformedDeclaration(defScan.input)
        THEN /\ defScan.err # NoError
             /\ defScan.err.Line >= 1 /\ defScan.err.Column >= 1
             /\ defScan.defs = EmptyMap
        ELSE \A name \in DOMAIN defScan.defs :
               LET params == defScan.defs[name].TypeParams
               IN /\ \A i \in 1..Len(params) : Len(params[i]) = 1 /\ IsLetter(params[i][1])
                  /\ \A i, j \in 1..Len(params) : i # j => params[i] # params[j]

\* sharing stands in run right after with, without or inherited
ValidSharingAt(run, i) == run[i] = S_sharing /\ i > 1 /\ run[i - 1] \in SharingPrefixes

\* the run has a sharing without its prefix or a prefix without its sharing
InvalidSharing(run) ==
    \/ \E i \in 1..Len(run) : run[i] = S_sharing /\ ~ValidSharingAt(run, i)
    \/ \E i \in 1..Len(run) :
         run[i] \in SharingPrefixes /\ (i = Len(run) \/ run[i + 1] # S_sharing)

\* C16: sharing-modifier grammar: class Foo<T> behind a modifier run with
\* with sharing, without sharing or inherited sharing is collected; behind
\* a run where sharing lacks its prefix, or a prefix lacks its sharing, it
\* is not collected and no error is returned; a valid declaration that
\* follows is collected in both cases.
C16_SharingGrammar ==
    defScan.returned =>
        \A run \in ModifierRuns :
          \A tail \in {<<>>, <<" ">> \o S_BarDeclaration} :
            defScan.input = SharingInput(run, tail) =>
              /\ defScan.err = NoError
              /\ ((\E i \in 1..Len(run) : ValidSharingAt(run, i)) /\ ~InvalidSharing(run))
                     => S_Foo \in DOMAIN defScan.defs
              /\ InvalidSharing(run) => S_Foo \notin DOMAIN defScan.defs
              /\ tail # <<>> => S_Bar \in DOMAIN defScan.defs

\* the results returned for the input file with this path, with their counts
ResultsFor(path) == {r \in Returned : r.OriginalPath = path}

\* C13: a template is never emitted: in a run without errors every input
\* file with a generic class definition has exactly one result, marked
\* IsTemplate with empty OutputPath and Content, and every other input file
\* has exactly one result, not marked, with the path the resolver computes.
C13_TemplateNotEmitted ==
    (phase = "done" /\ ~hasErrors) =>
        \A file \in files :
            /\ Cardinality(ResultsFor(file.Path)) = 1
            /\ \A r \in ResultsFor(file.Path) :
                   /\ CopiesIn(r, results) = 1
                   /\ r.Error = NoError
                   /\ IF DOMAIN ClassDefinitionsOf[file].defs # {}
                      THEN r.IsTemplate /\ r.OutputPath = <<>> /\ r.Content = <<>>
                      ELSE ~r.IsTemplate /\ r.OutputPath = outputPathFn(file.Path)

\* a run over template files and ordinary files
C13_Witness ==
    /\ phase = "done" /\ ~hasErrors
    /\ \E file \in files : DOMAIN ClassDefinitionsOf[file].defs # {}
    /\ \E file \in files : DOMAIN ClassDefinitionsOf[file].defs = {}
    /\ \E r \in Returned : r.OriginalPath = <<>>

\* C17: error isolation in template collection: when some files of the
\* batch have a type-parameter syntax error, an error result carries the
\* path of each of them, the run reports errors, and every template of
\* every well-formed file is in the template table with the path of a file
\* that defines it, in whatever order the files were visited.
C17_CollectIsolation ==
    (phase = "done" /\ \E file \in files : ~WellFormed(file)) =>
        /\ hasErrors
        /\ \A file \in files :
               ~WellFormed(file) =>
                   \E r \in Returned :
                       /\ r.OriginalPath = file.Path
                       /\ r.Error = ClassDefinitionsOf[file].err
                       /\ CopiesIn(r, results) = 1
        /\ \A file \in files :
               WellFormed(file) =>
                   \A name \in DOMAIN ClassDefinitionsOf[file].defs :
                       /\ name \in DOMAIN templates
                       /\ \E owner \in files :
                              /\ WellFormed(owner)
                              /\ name \in DOMAIN ClassDefinitionsOf[owner].defs
                              /\ templates[name] = ClassDefinitionsOf[owner].defs[name]
                              /\ templatePaths[name] = owner.Path

\* a malformed file next to two template files
C17_Witness ==
    /\ phase = "done" /\ hasErrors
    /\ \E file \in files : ~WellFormed(file)
    /\ Cardinality(DOMAIN templates) = 2

\* C18: each TranspileFiles call is a fresh computation: what the second
\* call on a transpiler returns is what a newly constructed transpiler
\* returns for the same files and forced instantiations.
C18_FreshComputation ==
    phase = "reused" =>
        \E fresh \in TranspileFilesOutcomes(files, NewTables, instantiations,
                                             instantiateSpec, loopVarShared) :
            fresh.results = results

\* C19: the order of the files is irrelevant: whatever order Phase 1 and
\* Phase 2 visit the files of the batch in, the run leaves the same template
\* table and usage table and returns the same results.
C19_OrderIrrelevant ==
    phase = "done" =>
        \A first \in Perms(files) :
            \A second \in Perms(files) :
                Let(TranspileFilesInOrder(files, first, first, first, NewTables,
                        instantiations, instantiateSpec, loopVarShared), LAMBDA one :
                  /\ one = TranspileFilesInOrder(files, second, first, first, NewTables,
                              instantiations, instantiateSpec, loopVarShared)
                  /\ one = TranspileFilesInOrder(files, first, second, first, NewTables,
                              instantiations, instantiateSpec, loopVarShared)
                  /\ one = TranspileFilesInOrder(files, first, first, second, NewTables,
                              instantiations, instantiateSpec, loopVarShared))

\* the mangled name of a usage: its identifiers, written one after another
Mangled(key) == SelectSeq(key, LAMBDA c : isIdentifierChar(c))

\* the identifier a usage begins with
KeyBase(key) ==
    Slice(key, 0, FirstPos(0, Len(key), LAMBDA q : ~isIdentifierChar(At(key, q))))

\* the usages discovered in file whose identifier is a known template name
TemplateUsages(file) == {k \in DOMAIN FileGenerics(file) : KeyBase(k) \in DOMAIN templates}

\* key stands at offset p of content as a whole usage, outside comments
WholeUsageAt(content, p, key) ==
    /\ MatchAt(content, p, key)
    /\ (p = 0 \/ ~isIdentifierChar(At(content, p - 1)))
    /\ ~InComment(content, p)

RECURSIVE PassThroughFrom(_, _, _)
\* content from offset i on with every whole usage among keys replaced by
\* its mangled name (the longest where several begin together) and every
\* other byte copied
PassThroughFrom(content, keys, i) ==
    Let(FirstPos(i, Len(content),
                 LAMBDA q : \E k \in keys : WholeUsageAt(content, q, k)), LAMBDA p :
      IF p >= Len(content) THEN Slice(content, i, Len(content))
      ELSE Let(CHOOSE k \in keys :
                   /\ WholeUsageAt(content, p, k)
                   /\ \A k2 \in keys : WholeUsageAt(content, p, k2) => Len(k2) <= Len(k),
               LAMBDA key :
                 Slice(content, i, p) \o Mangled(key)
                     \o PassThroughFrom(content, keys, p + Len(key))))

\* C20: pass-through: the output of a file that is not a template is its
\* input with the whole occurrences of the discovered usages of known
\* templates replaced by their mangled names; every other byte, also of an
\* identifier that only contains a template name and of a usage of a name
\* that is no template, is copied unchanged and in order.
C20_PassThrough ==
    (phase = "done" /\ ~hasErrors) =>
        \A file \in files :
            DOMAIN ClassDefinitionsOf[file].defs = {} =>
                \A r \in ResultsFor(file.Path) :
                    r.Content = PassThroughFrom(file.Content, TemplateUsages(file), 0)

\* the error comment the specification describes for name and the counts
ArityComment(name, expected, got) ==
    <<"/","/"," ","E","R","R","O","R",":"," ","T","y","p","e"," ","p","a","r","a","m","e","t","e","r"," ","m","i","s","m","a","t","c","h"," ","f","o","r"," ">> \o name
    \o <<" ","(","e","x","p","e","c","t","e","d"," ">> \o <<<<"0","1","2","3","4","5","6","7","8","9">>[expected + 1]>>
    \o <<","," ","g","o","t"," ">> \o <<<<"0","1","2","3","4","5","6","7","8","9">>[got + 1]>> \o <<")">>

\* the number of type arguments an entry of a method's list gives
ArgumentCount(typeArg) == 1 + Cardinality({i \in 1..Len(typeArg) : typeArg[i] = ","})

\* the usages of templates whose arguments are not as many as the parameters
MismatchedUsages ==
    {k \in DOMAIN usages :
        /\ usages[k].BaseType \in DOMAIN templates
        /\ Len(usages[k].TypeArgs) # Len(templates[usages[k].BaseType].TypeParams)}

\* the same for the method usages: pairs of a key and a position in its list
MismatchedMethodUsages ==
    {ki \in UNION {{<<k, i>> : i \in 1..Len(methodUsages[k])} : k \in DOMAIN methodUsages} :
        ArgumentCount(methodUsages[ki[1]][ki[2]]) # Len(methodTemplates[ki[1]].TypeParams)}

\* the input of the run has no other fault: the files parse, the forced
\* instantiations name templates of the batch by one plain expression and
\* the method instantiations name methods of the batch
NoOtherFault ==
    /\ \A file \in files : WellFormed(file)
    /\ instantiations \in {<<>>, <<S_QueueString>>}
    /\ (instantiations # <<>> => S_Queue \in DOMAIN templates)
    /\ DOMAIN instantiateSpec \subseteq DOMAIN methodTemplates

\* C12: an arity mismatch is not fatal: in a run whose only fault is a usage
\* of a template, or a forced instantiation of a generic method, with the
\* wrong number of type arguments, no error is recorded or returned; the
\* concrete class of the usage is the error comment that names the template
\* and the expected and actual counts, the method is replaced by the same
\* comment naming the method; every file still has its result, every other
\* usage its concrete class and every other method instantiation its method.
C12_ArityNonFatal ==
    (phase = "done" /\ NoOtherFault
        /\ (MismatchedUsages # {} \/ MismatchedMethodUsages # {})) =>
        /\ ~hasErrors
        /\ \A r \in Returned : r.Error = NoError
        /\ \A file \in files : ResultsFor(file.Path) # {}
        /\ \A k \in DOMAIN usages :
               usages[k].BaseType \in DOMAIN templates =>
                   \E r \in Returned :
                       /\ r.OutputPath = ConcretePath(usages[k])
                       /\ IF k \in MismatchedUsages
                          THEN r.Content =
                                   ArityComment(usages[k].BaseType,
                                       Len(templates[usages[k].BaseType].TypeParams),
                                       Len(usages[k].TypeArgs))
                          ELSE MatchAt(r.Content, 0, S_PublicClass)
        /\ \A k \in DOMAIN methodUsages :
               \A i \in 1..Len(methodUsages[k]) :
                   \E r \in Returned :
                       /\ r.OutputPath # <<>>
                       /\ IF <<k, i>> \in MismatchedMethodUsages
                          THEN Contains(r.Content,
                                   ArityComment(methodTemplates[k].MethodName,
                                       Len(methodTemplates[k].TypeParams),
                                       ArgumentCount(methodUsages[k][i])))
                          ELSE Contains(r.Content,
                                   methodTemplates[k].MethodName
                                   \o SelectSeq(methodUsages[k][i],
                                                LAMBDA c : isIdentifierChar(c))
                                   \o <<"(">>)

\* a run with the usage Dict<String> of the two-parameter template Dict and
\* the method instantiations of Util.first, a method of one parameter, with
\* one argument and with two: the class DictString is the comment, and the
\* output of Util.peak holds the comment and the method firstString
C12_Witness ==
    /\ phase = "done" /\ NoOtherFault
    /\ MismatchedUsages # {}
    /\ MismatchedMethodUsages # {}
    /\ \E r \in Returned : MatchAt(r.Content, 0, <<"/","/"," ","E","R","R","O","R">>)
    /\ \E r \in Returned :
           /\ Contains(r.Content, <<"f","o","r"," ","f","i","r","s","t"," ","(","e","x","p","e","c","t","e","d"," ","1",","," ","g","o","t"," ","2",")">>)
           /\ Contains(r.Content, <<"f","i","r","s","t","S","t","r","i","n","g","(">>)

\* s ends with w
HasSuffix(s, w) == Len(w) <= Len(s) /\ Slice(s, Len(s) - Len(w), Len(s)) = w

\* the forced instantiations of the configuration
Forced == {instantiations[i] : i \in 1..Len(instantiations)}

\* the error results the run returned for peakconfig.json, counted
ConfigErrors ==
    BagCardinality([r \in {x \in Returned : x.OriginalPath = S_peakconfig
                                             /\ x.Error # NoError} |-> results[r]])

\* C14: forced instantiations are validated against the templates of all
\* the files: in a run over files that parse, every forced instantiation
\* whose name no file defines as a template and every forced method
\* instantiation whose key no file defines gives an error result for
\* peakconfig.json; a forced instantiation whose name some file defines is
\* in the usage table and its concrete class is returned.
C14_ForcedValidated ==
    (phase = "done" /\ \A file \in files : WellFormed(file)) =>
        /\ ConfigErrors >= Cardinality({f \in Forced : KeyBase(f) \notin DOMAIN templates})
                           + Cardinality((DOMAIN instantiateSpec) \ (DOMAIN methodTemplates))
        /\ \A f \in Forced :
               KeyBase(f) \in DOMAIN templates =>
                   /\ f \in DOMAIN usages
                   /\ \E r \in Returned :
                          /\ r.Error = NoError
                          /\ HasSuffix(r.OutputPath, Mangled(f) \o S_cls)


\* the text of content from the marker comment of the generated methods to
\* its final closing brace; "" when either is missing
GeneratedPart(content) ==
    LET at == Index(content, S_GeneratedMethods)
        last == LastIndex(content, <<"}">>)
    IN IF at = -1 \/ last < at THEN <<>> ELSE Slice(content, at, last)

\* the name of the concrete method of an entry: the method name followed by
\* the type arguments of the entry, concatenated
ConcreteMethodName(methodDef, typeArg) ==
    methodDef.MethodName \o SelectSeq(typeArg, LAMBDA c : isIdentifierChar(c))

\* content holds, between the marker comment and its final closing brace, a
\* method of the concrete name without the type-parameter bracket and
\* without the type parameters as words
HoldsConcreteMethod(content, methodDef, typeArg) ==
    LET part == GeneratedPart(content)
    IN /\ Contains(part, ConcreteMethodName(methodDef, typeArg) \o <<"(">>)
       /\ \A i \in 1..Len(methodDef.TypeParams) :
              /\ ~Contains(part, <<"<">> \o methodDef.TypeParams[i] \o <<">">>)
              /\ replaceTypeParameter(part, methodDef.TypeParams[i], <<>>) = part

\* C21: generic methods are instantiated into their owning class: in a run
\* without errors, for every forced method usage Owner.method and every
\* entry of its list with as many arguments as the method has parameters,
\* some returned output holds, between the marker comment and its final
\* closing brace, the concrete method named by the method name and the
\* concatenated arguments, with the bracket removed and the parameters
\* substituted.
C21_MethodsInserted ==
    (phase = "done" /\ ~hasErrors) =>
        \A methodKey \in DOMAIN methodUsages :
            \A i \in 1..Len(methodUsages[methodKey]) :
                ArgumentCount(methodUsages[methodKey][i])
                        = Len(methodTemplates[methodKey].TypeParams) =>
                    \E r \in Returned :
                        /\ r.Error = NoError
                        /\ HoldsConcreteMethod(r.Content, methodTemplates[methodKey],
                                               methodUsages[methodKey][i])

\* a run in which the method get of the generic class Box was instantiated
\* with String and no returned content names getString
C21_Counterexample ==
    /\ phase = "done" /\ ~hasErrors
    /\ S_BoxGet \in DOMAIN methodUsages
    /\ methodUsages[S_BoxGet] = <<S_String>>
    /\ \A r \in Returned :
           ~Contains(r.Content, <<"g","e","t","S","t","r","i","n","g">>)

\* the results returned with a content to write to path, counted
WrittenTo(path) ==
    BagCardinality([r \in {x \in Returned : x.OutputPath = path} |-> results[r]])

\* C22: one output per concrete instantiation: in a run without errors every
\* usage of a template has a returned concrete class, and no two returned
\* results share a non-empty OutputPath, however often and with whatever
\* spacing the same instantiation is written.
C22_OneOutputPerInstantiation ==
    (phase = "done" /\ ~hasErrors) =>
        /\ \A k \in DOMAIN usages : WrittenTo(ConcretePath(usages[k])) >= 1
        /\ \A r \in Returned : r.OutputPath # <<>> => WrittenTo(r.OutputPath) = 1

\* a run over Spacing.peak, which writes Dict<String,Integer> and
\* Dict<String, Integer>, that returned DictStringInteger.cls twice
C22_Counterexample ==
    /\ phase = "done" /\ ~hasErrors
    /\ SpacingPeak \in files
    /\ WrittenTo(<<"D","i","c","t","S","t","r","i","n","g","I","n","t","e","g","e","r",".","c","l","s">>) = 2

\* the identifier the scan stands before: where it starts and ends, and
\* where the text after it starts
AheadStart == skipWhitespaceAndComments(scan.input, scan.pos)

AheadEnd == parseIdentifier(scan.input, AheadStart)

AheadNext == skipWhitespace(scan.input, AheadEnd)

\* the scan stands before an identifier followed by a '<' that starts no
\* well-formed generic expression though neither '=' nor whitespace follows
RejectionAhead ==
    /\ scan.pos < Len(scan.input)
    /\ AheadStart < Len(scan.input)
    /\ IsLetter(At(scan.input, AheadStart)) \/ At(scan.input, AheadStart) = "_"
    /\ At(scan.input, AheadNext) = "<"
    /\ At(scan.input, AheadNext + 1) # "="
    /\ ~IsSpace(At(scan.input, AheadNext + 1))
    /\ ~ParseGeneric(scan.input, AheadNext,
                     Slice(scan.input, AheadStart, AheadEnd)).ok

\* the offsets of s at which an identifier starts that is followed by a '<'
\* the scanner rejects
RejectedLess(s) ==
    {lt \in 0..(Len(s) - 1) :
        /\ At(s, lt) = "<" /\ At(s, lt + 1) # "=" /\ ~IsSpace(At(s, lt + 1))
        /\ \E start \in 0..(lt - 1) :
             /\ IsLetter(At(s, start)) \/ At(s, start) = "_"
             /\ start = 0 \/ ~isIdentifierChar(At(s, start - 1))
             /\ skipWhitespace(s, parseIdentifier(s, start)) = lt
             /\ ~ParseGeneric(s, lt, Slice(s, start, parseIdentifier(s, start))).ok}

\* a well-formed usage of a type that is not built in starts at offset q of
\* s as a word
UsageStartsAt(s, q) ==
    /\ IsLetter(At(s, q)) \/ At(s, q) = "_"
    /\ q = 0 \/ ~isIdentifierChar(At(s, q - 1))
    /\ ~isBuiltInGeneric(Slice(s, q, parseIdentifier(s, q)))
    /\ LET lt == skipWhitespace(s, parseIdentifier(s, q))
       IN /\ At(s, lt) = "<" /\ At(s, lt + 1) # "=" /\ ~IsSpace(At(s, lt + 1))
          /\ ParseGeneric(s, lt, Slice(s, q, parseIdentifier(s, q))).ok

\* the usage that starts at offset q of s: its text and its expression
UsageAt(s, q) ==
    LET e == parseIdentifier(s, q)
        r == ParseGeneric(s, skipWhitespace(s, e), Slice(s, q, e))
    IN [text |-> Slice(s, q, r.pos), expr |-> r.expr]

\* what holds of the finished scans: usages after a rejected '<' are there
C23_Collected ==
    /\ ScanFinished =>
          \A lt \in RejectedLess(scan.input) :
              \A q \in (lt + 1)..(Len(scan.input) - 1) :
                  UsageStartsAt(scan.input, q) =>
                      \/ UsageAt(scan.input, q).text \in DOMAIN scan.generics
                      \/ String(UsageAt(scan.input, q).expr) \in DOMAIN scan.generics
    /\ (ScanFinished /\ scan.input \in {S_RejectedThenUsage, S_SpaceThenUsage}) =>
          DOMAIN scan.generics = {S_QueueInteger}
    /\ (ScanFinished /\ scan.input = S_FooLess) => scan.generics = EmptyMap

\* C23: speculative parse and rollback: an iteration of FindGenerics whose
\* ParseGeneric fails leaves the cursor exactly one past the rejected '<'
\* and records nothing, so every well-formed usage of a type that is not
\* built in and begins after that '<' is collected: Queue<Integer> in
\* a<Queue<Integer>; and in Foo< x Queue<Integer> y, and Foo< alone gives
\* no usage.
C23_Rollback ==
    /\ []C23_Collected
    /\ [][RejectionAhead =>
             /\ scan'.pos = AheadNext + 1
             /\ scan'.generics = scan.generics]_vars

\* the scan of a<Queue<Integer>; that rejected a< and took Queue<Integer>
C23_Witness ==
    /\ ScanFinished /\ scan.input = S_RejectedThenUsage
    /\ RejectedLess(scan.input) = {1}
    /\ DOMAIN scan.generics = {S_QueueInteger}

\* the usages of known templates written in content outside comments, as
\* texts, wherever they stand
WrittenUsages(content) ==
    {UsageAt(content, q).text :
        q \in {p \in 0..(Len(content) - 1) :
                  /\ UsageStartsAt(content, p)
                  /\ ~InComment(content, p)
                  /\ Slice(content, p, parseIdentifier(content, p)) \in DOMAIN templates}}

\* outer with its part inner replaced by the mangled name of inner
PartlyRewritten(outer, inner) == ReplaceFirst(outer, inner, Mangled(inner))

\* C24: longest match first: in a run without errors, where a file that is
\* not a template writes a usage of a known template that contains a shorter
\* discovered usage of a known template, the output of the file holds the
\* mangled name of the outer usage and nowhere the outer usage with only the
\* inner one rewritten: Dict<String, Queue<Integer>> becomes
\* DictStringQueueInteger, never Dict<String, QueueInteger>.
C24_LongestFirst ==
    (phase = "done" /\ ~hasErrors) =>
        \A file \in files :
            DOMAIN ClassDefinitionsOf[file].defs = {} =>
                \A outer \in WrittenUsages(file.Content) :
                    \A inner \in TemplateUsages(file) :
                        (inner # outer /\ Contains(outer, inner)) =>
                            \A r \in ResultsFor(file.Path) :
                                /\ Contains(r.Content, Mangled(outer))
                                /\ ~Contains(r.Content, PartlyRewritten(outer, inner))

\* a run over Inner.peak with the templates Dict and Queue whose output
\* holds Dict<String, QueueInteger>
C24_Counterexample ==
    /\ phase = "done" /\ ~hasErrors
    /\ InnerPeak \in files
    /\ \E r \in ResultsFor(InnerPeak.Path) :
           Contains(r.Content, <<"L","i","s","t","<","D","i","c","t","<","S","t","r","i","n","g",","," ","Q","u","e","u","e","I","n","t","e","g","e","r",">",">">>)

\* the usages written in content outside comments and outside the
\* declaration of a class, each by its literal and by its canonical text
UsagesOutsideDeclarations(content) ==
    UNION {{UsageAt(content, q).text, String(UsageAt(content, q).expr)} :
             q \in {p \in 0..(Len(content) - 1) :
                       /\ UsageStartsAt(content, p)
                       /\ ~InComment(content, p)
                       /\ WordBefore(content, p) # S_class}}

\* C25: usages name templates and never come from a declaration: after
\* TranspileFiles has run collectUsages over a batch, every entry of the
\* usage table has a base type that is a key of the template table, and is
\* a forced instantiation or a usage that some file of the batch writes
\* outside the Name<Params> text of a class declaration.
C25_UsagesOfTemplates ==
    phase = "done" =>
        \A k \in DOMAIN usages :
            /\ usages[k].BaseType \in DOMAIN templates
            /\ \/ k \in Forced
               \/ \E file \in files : k \in UsagesOutsideDeclarations(file.Content)

\* a run over Queue.peak and Broken.peak, whose second class does not parse,
\* that recorded the declaration class Queue<T> of Broken.peak as a usage
C25_Counterexample ==
    /\ phase = "done"
    /\ BrokenPeak \in files
    /\ <<"Q","u","e","u","e","<","T",">">> \in DOMAIN usages

RECURSIVE Mentions(_, _)
\* the expression has one of the names as a type argument, at any depth
Mentions(expr, names) ==
    \E i \in 1..Len(expr.TypeArgs) :
        \/ expr.TypeArgs[i].IsSimple /\ expr.TypeArgs[i].BaseType \in names
        \/ ~expr.TypeArgs[i].IsSimple /\ Mentions(expr.TypeArgs[i], names)

\* the usages of known templates the batch writes with concrete arguments:
\* the forced ones, those of the files that are no templates, and those of a
\* template body that name no type parameter of its template
ConcreteUsages ==
    {parseInstantiation(f, FALSE).expr :
        f \in {x \in Forced : parseInstantiation(x, FALSE).ok}}
    \cup UNION {{GenericsOf[file][FALSE][k] : k \in DOMAIN GenericsOf[file][FALSE]} :
                  file \in {f \in files : DOMAIN ClassDefinitionsOf[f].defs = {}}}
    \cup UNION {UNION {{FindGenerics(def.Body, FALSE)[k] :
                           k \in {x \in DOMAIN FindGenerics(def.Body, FALSE) :
                                     ~Mentions(FindGenerics(def.Body, FALSE)[x],
                                               Range(def.TypeParams))}} :
                         def \in {ClassDefinitionsOf[file].defs[n] :
                                   n \in DOMAIN ClassDefinitionsOf[file].defs}} :
                  file \in files}

\* C26: every concrete class comes from a concrete usage: in a run without
\* errors every returned concrete class has the output path of a usage the
\* batch writes with concrete arguments; a reference in a template body that
\* names the type parameters of its template (Queue<K> in the body of
\* Dict<K, V>) gives no class such as QueueK.
C26_ConcreteOrigin ==
    (phase = "done" /\ ~hasErrors) =>
        \A r \in Returned :
            (r.OriginalPath = <<>> /\ r.OutputPath # <<>>) =>
                \E expr \in ConcreteUsages :
                    /\ expr.BaseType \in DOMAIN templates
                    /\ r.OutputPath = ConcretePath(expr)

\* a run over Dict.peak and Queue.peak alone that returned QueueK.cls
C26_Counterexample ==
    /\ phase = "done" /\ ~hasErrors
    /\ files = {DictPeak, QueuePeak}
    /\ instantiations = <<>>
    /\ WrittenTo(<<"Q","u","e","u","e","K",".","c","l","s">>) = 1

RECURSIVE SimultaneousFrom(_, _, _, _)
\* input from offset i on with every parameter that stands alone replaced by
\* its own argument, in one pass: what is put in is not looked at again
SimultaneousFrom(input, params, args, i) ==
    Let(FirstPos(i, Len(input),
                 LAMBDA q : \E j \in 1..Len(params) : StandsAlone(input, params[j], q)),
        LAMBDA p :
      IF p >= Len(input) THEN Slice(input, i, Len(input))
      ELSE Let(CHOOSE j \in 1..Len(params) : StandsAlone(input, params[j], p), LAMBDA j :
             Slice(input, i, p) \o args[j]
                 \o SimultaneousFrom(input, params, args, p + Len(params[j]))))

\* the usages of templates of two or more parameters with as many arguments
ManyParameterUsages ==
    {k \in DOMAIN usages :
        /\ usages[k].BaseType \in DOMAIN templates
        /\ Len(templates[usages[k].BaseType].TypeParams) >= 2
        /\ Len(templates[usages[k].BaseType].TypeParams) = Len(usages[k].TypeArgs)}

\* C27: Pass 1 is a simultaneous substitution: for every usage of a
\* template of two or more parameters, the loop over the substitutions gives
\* in every order the body with each parameter replaced by its own argument,
\* and nothing put in for one parameter is replaced again for another.
C27_Simultaneous ==
    phase = "done" =>
        \A k \in ManyParameterUsages :
            LET template == templates[usages[k].BaseType]
                args == [i \in 1..Len(usages[k].TypeArgs) |-> String(usages[k].TypeArgs[i])]
            IN \A order \in Perms(1..Len(template.TypeParams)) :
                   SubstituteInOrder(template.Body, template, usages[k], order)
                       = SimultaneousFrom(template.Body, template.TypeParams, args, 0)

\* a run over Dict.peak and Swap.peak, which writes Dict<V, Integer>, that
\* returned the class DictVInteger with the key type Integer
C27_Counterexample ==
    /\ phase = "done" /\ ~hasErrors
    /\ files = {DictPeak, SwapPeak}
    /\ \E r \in Returned :
           /\ r.OutputPath = <<"D","i","c","t","V","I","n","t","e","g","e","r",".","c","l","s">>
           /\ Contains(r.Content, <<"Q","u","e","u","e","<","I","n","t","e","g","e","r",">"," ","k","e","y","s">>)

\* what holds of every state of a scanner: the cursor is inside the input,
\* and the definition scanners return with the cursor of the caller
C28_CursorInside ==
    /\ loop.st.pos \in 0..Len(loop.input)
    /\ (loop.returned /\ loop.scanner # "FindGenerics") =>
           loop.st.pos = loop.originalPos

\* C28: FindGenerics, FindGenericClassDefinitions and
\* FindGenericMethodDefinitions terminate on every input, among them inputs
\* with an unterminated block comment, unbalanced braces, parentheses or
\* angle brackets, or a trailing '<': every iteration of each loop moves the
\* cursor forward, the cursor stays within 0..len(input), every call
\* returns, and the two definition scanners return with the cursor where the
\* caller had it, on success and on error.
C28_Termination ==
    /\ []C28_CursorInside
    /\ [][~loop'.returned => loop'.st.pos > loop.st.pos]_vars
    /\ <>loop.returned

\* FindGenericClassDefinitions has returned its error for a declaration
\* whose parameter list never closes, to a caller whose cursor was not 0,
\* after more than one iteration could have been made
C28_Witness ==
    /\ loop.returned /\ loop.scanner = "FindGenericClassDefinitions"
    /\ loop.input = S_OpenParameters
    /\ loop.st.err # NoError
    /\ loop.originalPos = 2 /\ loop.st.pos = 2

\* the executions of compileDirectory in progress
Compilations ==
    Cardinality({timer \in 1..Len(timers) : timers[timer] = "compiling"})
        + (IF watchState = "initial" THEN 1 ELSE 0)

\* C29: in watch mode at most one execution of compileDirectory is in
\* progress at any time, in every interleaving of file events, timer firings
\* and compilations.
C29_OneCompilation == Compilations <= 1

\* two callbacks are in compileDirectory at once
C29_Counterexample ==
    /\ watchState = "watching"
    /\ Cardinality({timer \in 1..Len(timers) : timers[timer] = "compiling"}) = 2

\* the event is a Write or a Create of a .peak file
Qualifies(ev) ==
    /\ HasSuffix(ev.Name, S_peak)
    /\ "Write" \in ev.Op \/ "Create" \in ev.Op

\* the timer exists and is in one of the states
TimerIn(timer, states) ==
    timer <= Len(timers) /\ timers[timer] \in states

\* at most one timer is waiting to fire
C30_OnePending ==
    Cardinality({timer \in 1..Len(timers) : timers[timer] = "pending"}) <= 1

\* C30: debounce: a timer is started only by a Write or Create event on a
\* .peak file, which stops the timer that was pending and makes the new one
\* the debounce timer; any other event leaves the timers as they are; at
\* most one timer is pending, a stopped timer never fires, so of a burst of
\* events that each arrive before the timer fires only the last timer
\* starts a compilation, and it does unless it is stopped or the context
\* cancelled; once the context is cancelled no callback starts a
\* compilation.
C30_Debounce ==
    /\ []C30_OnePending
    /\ [][/\ Len(timers') > Len(timers) =>
                /\ Qualifies(event')
                /\ Len(timers') = Len(timers) + 1
                /\ debounceTimer' = Len(timers')
                /\ timers'[debounceTimer'] = "pending"
                /\ debounceTimer # 0 => timers'[debounceTimer] # "pending"
          /\ (event' # event /\ Qualifies(event')) => Len(timers') = Len(timers) + 1
          /\ (event' # event /\ ~Qualifies(event')) =>
                (timers' = timers /\ debounceTimer' = debounceTimer)
          /\ \A timer \in 1..Len(timers) :
                /\ timers[timer] = "stopped" => timers'[timer] = "stopped"
                /\ (ctxDone /\ timers'[timer] = "compiling") => timers[timer] = "compiling"]_vars
    /\ \A timer \in 1..MaxTimers :
          TimerIn(timer, {"pending"})
              ~> \/ TimerIn(timer, {"stopped", "compiling", "done", "returned"})
                 \/ watchState = "returned"

\* a burst of two events of which the first timer was stopped and the
\* second started the only compilation, and a third timer whose callback
\* found the context cancelled
C30_Witness ==
    /\ timers = <<"stopped", "done", "returned">>
    /\ ctxDone
=============================================================================
